---- MODULE Spec2Model ----
(***************************************************************************)
(* The reflection-generation pipeline of services/llm_client.py:           *)
(* the retrying atomic calls, the streaming generator with its filter      *)
(* buffer, and the extraction of (reflection, weight, tags).               *)
(*                                                                         *)
(* Text is a sequence of one-character strings; every regular expression   *)
(* of the source is an operator that scans such a sequence the way         *)
(* Python's re module does (leftmost match, greedy with backtracking).     *)
(***************************************************************************)
EXTENDS Integers, Sequences, FiniteSets, TLC

\* ------------------------------------------------------------------ bounds

MaxRetries == 3
MaxDelay == 2
MaxFragments == 3
MaxPieces == 2
\* The most tags a response of the scenario form lists.
MaxTags == 3

\* ------------------------------------------------------- character classes

UpperCase == {"A","B","C","D","E","F","G","H","I","J","K","L","M",
              "N","O","P","Q","R","S","T","U","V","W","X","Y","Z"}
LowerCase == {"a","b","c","d","e","f","g","h","i","j","k","l","m",
              "n","o","p","q","r","s","t","u","v","w","x","y","z"}
Digits == {"0","1","2","3","4","5","6","7","8","9"}

LowerOf == [c \in UpperCase |->
    CASE c = "A" -> "a" [] c = "B" -> "b" [] c = "C" -> "c" [] c = "D" -> "d"
      [] c = "E" -> "e" [] c = "F" -> "f" [] c = "G" -> "g" [] c = "H" -> "h"
      [] c = "I" -> "i" [] c = "J" -> "j" [] c = "K" -> "k" [] c = "L" -> "l"
      [] c = "M" -> "m" [] c = "N" -> "n" [] c = "O" -> "o" [] c = "P" -> "p"
      [] c = "Q" -> "q" [] c = "R" -> "r" [] c = "S" -> "s" [] c = "T" -> "t"
      [] c = "U" -> "u" [] c = "V" -> "v" [] c = "W" -> "w" [] c = "X" -> "x"
      [] c = "Y" -> "y" [] c = "Z" -> "z"]

\* re.IGNORECASE: both sides are compared in lower case.
Lower(c) == IF c \in UpperCase THEN LowerOf[c] ELSE c

\* \s
IsSpace(c) == c \in {" ", "\n", "\t", "\r"}

\* \w
IsWord(c) == c \in UpperCase \cup LowerCase \cup Digits \cup {"_"}

\* \d
IsDigit(c) == c \in Digits

DigitValue(c) ==
    CASE c = "0" -> 0 [] c = "1" -> 1 [] c = "2" -> 2 [] c = "3" -> 3
      [] c = "4" -> 4 [] c = "5" -> 5 [] c = "6" -> 6 [] c = "7" -> 7
      [] c = "8" -> 8 [] c = "9" -> 9

\* ------------------------------------------------------------ text helpers

Min(a, b) == IF a < b THEN a ELSE b

\* s[i..j], empty when j < i.
Slice(s, i, j) == IF j < i THEN << >> ELSE SubSeq(s, i, j)

\* A lower-case literal matches s at position i, ignoring case.
MatchLit(s, i, lit) ==
    /\ i >= 1
    /\ i + Len(lit) - 1 <= Len(s)
    /\ \A k \in 1..Len(lit) : Lower(s[i + k - 1]) = lit[k]

\* The first position >= i that is past the end of s or satisfies Stop.
RECURSIVE SkipSpaces(_, _)
SkipSpaces(s, i) ==
    IF i <= Len(s) /\ IsSpace(s[i]) THEN SkipSpaces(s, i + 1) ELSE i

RECURSIVE SkipDigits(_, _)
SkipDigits(s, i) ==
    IF i <= Len(s) /\ IsDigit(s[i]) THEN SkipDigits(s, i + 1) ELSE i

RECURSIVE SkipStars(_, _)
SkipStars(s, i) ==
    IF i <= Len(s) /\ s[i] = "*" THEN SkipStars(s, i + 1) ELSE i

\* [^.]* from i: the position of the next "." (or Len(s) + 1).
RECURSIVE RunEnd(_, _)
RunEnd(s, i) ==
    IF i <= Len(s) /\ s[i] # "." THEN RunEnd(s, i + 1) ELSE i

\* .+ from i: the position of the next newline (or Len(s) + 1).
RECURSIVE LineEnd(_, _)
LineEnd(s, i) ==
    IF i <= Len(s) /\ s[i] # "\n" THEN LineEnd(s, i + 1) ELSE i

\* int(digits)
RECURSIVE IntOf(_)
IntOf(ds) ==
    IF ds = << >> THEN 0
    ELSE 10 * IntOf(SubSeq(ds, 1, Len(ds) - 1)) + DigitValue(ds[Len(ds)])

\* str.strip()
RECURSIVE LStrip(_)
LStrip(s) ==
    IF s # << >> /\ IsSpace(s[1]) THEN LStrip(Tail(s)) ELSE s

RECURSIVE RStrip(_)
RStrip(s) ==
    IF s # << >> /\ IsSpace(s[Len(s)]) THEN RStrip(SubSeq(s, 1, Len(s) - 1)) ELSE s

Strip(s) == RStrip(LStrip(s))

\* \b at position i (between s[i-1] and s[i]).
WordAt(s, i) == i >= 1 /\ i <= Len(s) /\ IsWord(s[i])
Boundary(s, i) == WordAt(s, i - 1) # WordAt(s, i)


MinOf(S) == CHOOSE x \in S : \A y \in S : x <= y
MaxOf(S) == CHOOSE x \in S : \A y \in S : x >= y

\* re.search: the leftmost position at which M matches, 0 when none does.
FirstMatch(s, M(_, _)) ==
    LET I == {i \in 1..Len(s) : M(s, i)}
    IN IF I = {} THEN 0 ELSE MinOf(I)

\* F applied to the value of v: an intermediate result of the source, which
\* Python computes once and then names.
Let(v, F(_)) == CHOOSE r \in {F(x) : x \in {v}} : TRUE

\* ------------------------------------------- the stream filter's patterns

WeightLit == <<"w","e","i","g","h","t">>
WeighLit == <<"w","e","i","g","h">>
TagsLit == <<"t","a","g","s",":">>

\* The run of non-"." characters s[i..j-1] contains lit.
RunHas(s, i, j, lit) == \E p \in i..(j - Len(lit)) : MatchLit(s, p, lit)

\* re.sub(r"[^.]*<lit>[^.]*\.?", "", s, flags=re.IGNORECASE) from position i:
\* a run of non-"." characters that contains lit is removed whole, with the
\* "." that ends it; a run that does not contain it is kept.
RECURSIVE SubSentence(_, _, _)
SubSentence(s, i, lit) ==
    IF i > Len(s) THEN << >>
    ELSE LET j == RunEnd(s, i)
         IN IF RunHas(s, i, j, lit)
            THEN SubSentence(s, IF j <= Len(s) THEN j + 1 ELSE j, lit)
            ELSE IF j <= Len(s)
                 THEN Slice(s, i, j) \o SubSentence(s, j + 1, lit)
                 ELSE Slice(s, i, Len(s))

\* TAGS:\s*(.+) at i: where group 1 starts (0: no match). \s* is greedy and
\* gives characters back until "." finds one that is not a newline.
TagsValueStart(s, i) ==
    LET k == i + Len(TagsLit)
        kmax == SkipSpaces(s, k)
        K == {m \in k..Len(s) : s[m] # "\n"}
    IN IF kmax <= Len(s) THEN kmax
       ELSE IF K = {} THEN 0 ELSE MaxOf(K)

TagsMatches(s, i) == MatchLit(s, i, TagsLit) /\ TagsValueStart(s, i) # 0

\* The position after the match of TAGS:\s*.+ at i.
TagsEnd(s, i) == LineEnd(s, TagsValueStart(s, i))

\* re.sub(r"TAGS:\s*.+", "", s, flags=re.IGNORECASE) from position i.
RECURSIVE SubTags(_, _)
SubTags(s, i) ==
    IF i > Len(s) THEN << >>
    ELSE IF TagsMatches(s, i) THEN SubTags(s, TagsEnd(s, i))
    ELSE <<s[i]>> \o SubTags(s, i + 1)

\* \b([1-9]|10)\b at i: the length of the match (0: no match).
NumberLen(s, i) ==
    IF i > Len(s) \/ ~Boundary(s, i) THEN 0
    ELSE IF s[i] \in Digits \ {"0"} /\ Boundary(s, i + 1) THEN 1
    ELSE IF s[i] = "1" /\ i + 1 <= Len(s) /\ s[i + 1] = "0" /\ Boundary(s, i + 2) THEN 2
    ELSE 0

\* re.sub(r"\b([1-9]|10)\b", "", s) from position i.
RECURSIVE SubNumbers(_, _)
SubNumbers(s, i) ==
    IF i > Len(s) THEN << >>
    ELSE IF NumberLen(s, i) > 0 THEN SubNumbers(s, i + NumberLen(s, i))
    ELSE <<s[i]>> \o SubNumbers(s, i + 1)

\* $ (no MULTILINE): the end of s, or just before a newline that ends s.
EndAnchor(s, j) == j = Len(s) + 1 \/ (j = Len(s) /\ s[j] = "\n")

\* re.sub(r"\*+$", "", s) from position i.
RECURSIVE SubTrailingStars(_, _)
SubTrailingStars(s, i) ==
    IF i > Len(s) THEN << >>
    ELSE IF s[i] = "*" /\ EndAnchor(s, SkipStars(s, i))
         THEN Slice(s, SkipStars(s, i), Len(s))
    ELSE <<s[i]>> \o SubTrailingStars(s, i + 1)


\* Lines 266-278: the five removals applied to a copy of the buffer.
FilterBuffer(buffer) ==
    Let(SubSentence(buffer, 1, WeightLit), LAMBDA f1 :
    Let(SubSentence(f1, 1, WeighLit), LAMBDA f2 :
    Let(SubTags(f2, 1), LAMBDA f3 :
    Let(SubNumbers(f3, 1), LAMBDA f4 :
    SubTrailingStars(f4, 1)))))

\* Lines 294-297: the removals applied to the extracted reflection.
CleanReflection(reflection) ==
    Let(SubSentence(reflection, 1, WeightLit), LAMBDA r1 :
    Let(SubSentence(r1, 1, WeighLit), LAMBDA r2 :
    Let(SubNumbers(r2, 1), LAMBDA r3 :
    SubTrailingStars(r3, 1))))

\* ---------------------------------------------- the extraction's patterns

WeightColonLit == <<"w","e","i","g","h","t",":">>
HoldsLit == <<"t","h","i","s"," ","m","e","m","o","r","y"," ","h","o","l","d","s"," ",
              "a"," ","w","e","i","g","h","t"," ","o","f"," ">>

IsStar(s, i) == i <= Len(s) /\ s[i] = "*"

\* \*?\*? before "Weight:" at i: how many asterisks the match takes (-1: the
\* literal does not follow for any count).
LeadStars(s, i) ==
    IF IsStar(s, i) /\ IsStar(s, i + 1) /\ MatchLit(s, i + 2, WeightColonLit) THEN 2
    ELSE IF IsStar(s, i) /\ MatchLit(s, i + 1, WeightColonLit) THEN 1
    ELSE IF MatchLit(s, i, WeightColonLit) THEN 0
    ELSE -1

\* Where (\d+) starts in a match of \*?\*?Weight:\s*(\d+)\*?\*? at i.
WeightColonDigits(s, i) == SkipSpaces(s, i + LeadStars(s, i) + Len(WeightColonLit))

WeightColonMatches(s, i) ==
    /\ LeadStars(s, i) >= 0
    /\ SkipDigits(s, WeightColonDigits(s, i)) > WeightColonDigits(s, i)

\* int(weight_match.group(1))
WeightColonValue(s, i) ==
    LET q == WeightColonDigits(s, i)
    IN IntOf(Slice(s, q, SkipDigits(s, q) - 1))

\* The position after the match: the digits and at most two asterisks.
WeightColonEnd(s, i) ==
    LET r == SkipDigits(s, WeightColonDigits(s, i))
    IN Min(r + 2, SkipStars(s, r))

\* re.sub(r"\*?\*?Weight:\s*\d+\*?\*?", "", s, flags=re.IGNORECASE) from i.
RECURSIVE SubWeightColon(_, _)
SubWeightColon(s, i) ==
    IF i > Len(s) THEN << >>
    ELSE IF WeightColonMatches(s, i) THEN SubWeightColon(s, WeightColonEnd(s, i))
    ELSE <<s[i]>> \o SubWeightColon(s, i + 1)

\* "This memory holds a weight of (\d+)" at i.
HoldsMatches(s, i) ==
    /\ MatchLit(s, i, HoldsLit)
    /\ SkipDigits(s, i + Len(HoldsLit)) > i + Len(HoldsLit)

HoldsValue(s, i) ==
    LET q == i + Len(HoldsLit)
    IN IntOf(Slice(s, q, SkipDigits(s, q) - 1))

\* The position after a match of "This memory holds a weight of \d+\.?" at i.
HoldsEnd(s, i) ==
    LET r == SkipDigits(s, i + Len(HoldsLit))
    IN IF r <= Len(s) /\ s[r] = "." THEN r + 1 ELSE r

RECURSIVE SubHolds(_, _)
SubHolds(s, i) ==
    IF i > Len(s) THEN << >>
    ELSE IF HoldsMatches(s, i) THEN SubHolds(s, HoldsEnd(s, i))
    ELSE <<s[i]>> \o SubHolds(s, i + 1)

\* \s*$ at k: only whitespace is left.
OnlySpaceFrom(s, k) == SkipSpaces(s, k) > Len(s)

\* \b([1-9]|10)\s*$ at i: the length of group 1 (0: no match).
EndNumberLen(s, i) ==
    IF i > Len(s) \/ ~Boundary(s, i) THEN 0
    ELSE IF s[i] \in Digits \ {"0"} /\ OnlySpaceFrom(s, i + 1) THEN 1
    ELSE IF s[i] = "1" /\ i + 1 <= Len(s) /\ s[i + 1] = "0" /\ OnlySpaceFrom(s, i + 2) THEN 2
    ELSE 0

EndNumberMatches(s, i) == EndNumberLen(s, i) > 0

EndNumberValue(s, i) == IntOf(Slice(s, i, i + EndNumberLen(s, i) - 1))

\* re.sub(r"\b([1-9]|10)\s*$", "", s): the match runs to the end of s.
SubEndNumber(s) ==
    LET i == FirstMatch(s, EndNumberMatches)
    IN IF i = 0 THEN s ELSE Slice(s, 1, i - 1)

\* str.split(",")
RECURSIVE SplitComma(_)
SplitComma(s) ==
    LET I == {i \in 1..Len(s) : s[i] = ","}
    IN IF I = {} THEN <<s>>
       ELSE <<Slice(s, 1, MinOf(I) - 1)>> \o SplitComma(Slice(s, MinOf(I) + 1, Len(s)))

\* The pieces kept as they are between the commas: tag for tag.strip().
ParseTagsUntrimmed(tags_text) ==
    SelectSeq(SplitComma(tags_text), LAMBDA t : Strip(t) # << >>)

\* Line 419: [tag.strip() for tag in tags_text.split(",") if tag.strip()]
ParseTags(tags_text) ==
    LET parts == SplitComma(tags_text)
        stripped == [k \in 1..Len(parts) |-> Strip(parts[k])]
    IN SelectSeq(stripped, LAMBDA t : t # << >>)

\* A weight above the range clamped to 10 instead of reset.
ValidateWeightClamped(weight) == IF weight > 10 THEN 10 ELSE weight

\* Lines 450-453: a weight outside 1..10 is reset to 0.
ValidateWeight(weight) ==
    IF weight > 0 /\ ~(1 <= weight /\ weight <= 10) THEN 0 ELSE weight

\* Lines 410-422: the locals at their initial values, then the tags. x is
\* the record of the locals: weight, tags, reflection, and which of the
\* three weight patterns matched (not a local: kept for the properties).
ExtractTags(response) ==
    Let(FirstMatch(response, TagsMatches), LAMBDA at :
        IF at = 0
        THEN [reflection |-> Strip(response), weight |-> 0, tags |-> << >>,
              matched |-> << >>]
        ELSE [reflection |-> SubTags(Strip(response), 1), weight |-> 0,
              tags |-> ParseTags(Strip(Slice(response, TagsValueStart(response, at),
                                             TagsEnd(response, at) - 1))),
              matched |-> << >>])

\* Pattern 1 taking the weight and leaving the reflection as it is.
WeightPattern1KeepsText(response, x) ==
    Let(FirstMatch(response, WeightColonMatches), LAMBDA at :
        IF at = 0 THEN x
        ELSE [x EXCEPT !.weight = WeightColonValue(response, at),
                       !.matched = Append(@, 1)])

\* Lines 424-430: pattern 1, "Weight: X" or "**Weight: X**".
WeightPattern1(response, x) ==
    Let(FirstMatch(response, WeightColonMatches), LAMBDA at :
        IF at = 0 THEN x
        ELSE [x EXCEPT !.weight = WeightColonValue(response, at),
                       !.reflection = SubWeightColon(@, 1),
                       !.matched = Append(@, 1)])

\* Lines 432-439: pattern 2, "This memory holds a weight of X".
WeightPattern2(response, x) ==
    IF x.weight # 0 THEN x
    ELSE Let(FirstMatch(response, HoldsMatches), LAMBDA at :
        IF at = 0 THEN x
        ELSE [x EXCEPT !.weight = HoldsValue(response, at),
                       !.reflection = SubHolds(@, 1),
                       !.matched = Append(@, 2)])

\* Lines 441-448: pattern 3, a number 1-10 at the end of the stripped text.
WeightPattern3(response, x) ==
    IF x.weight # 0 THEN x
    ELSE Let(Strip(response), LAMBDA stripped :
         Let(FirstMatch(stripped, EndNumberMatches), LAMBDA at :
        IF at = 0 THEN x
        ELSE [x EXCEPT !.weight = EndNumberValue(stripped, at),
                       !.reflection = SubEndNumber(Strip(@)),
                       !.matched = Append(@, 3)]))

\* Lines 410-448: the locals after the three weight patterns, before the
\* range validation.
ExtractRaw(response) ==
    Let(ExtractTags(response), LAMBDA x0 :
    Let(WeightPattern1(response, x0), LAMBDA x1 :
    Let(WeightPattern2(response, x1), LAMBDA x2 :
    WeightPattern3(response, x2))))

\* The reflection trimmed and returned even when nothing is left of it.
FinishExtractionNoFallback(response, x) ==
    [reflection |-> Strip(x.reflection),
     weight |-> ValidateWeight(x.weight),
     tags |-> x.tags]

\* Lines 450-466: validation, the final strip and the fallback to the full
\* response.
FinishExtraction(response, x) ==
    Let(Strip(x.reflection), LAMBDA reflection :
        [reflection |-> IF reflection = << >> THEN Strip(response) ELSE reflection,
         weight |-> ValidateWeight(x.weight),
         tags |-> x.tags])

\* _extract_reflection_weight_and_tags
ExtractReflectionWeightAndTags(response) ==
    Let(ExtractRaw(response), LAMBDA x : FinishExtraction(response, x))

\* ------------------------------------------------------------------ state

VARIABLES
    entry,        \* the entry point the caller invoked
    max_retries,  \* its max_retries argument
    delay,        \* its retry_delay argument
    text,         \* the text the model generates for a request that succeeds
    cuts,         \* the positions of text at which a streamed fragment may end
    outcomes,     \* what the transport did on each request so far
    requests,     \* the number of requests sent to /api/generate
    sleeps,       \* the arguments of time.sleep, in order
    lp,           \* the frame of generate_with_long_polling
    gr,           \* the frame of generate_reflection_weight_and_tags
    st,           \* the frame of generate_reflection_and_weight_stream
    events,       \* the events the stream generator has yielded
    model,        \* the model argument of the entry point
    image_base64, \* its image_base64 argument ("" when there is none)
    prompt,       \* the local prompt, after lines 239-252 or 355-368
    images,       \* the local images, after the same lines
    posts,        \* the JSON bodies posted to /api/generate, in order
    user,         \* the row of the authenticated user
    memories,     \* the rows of the memories table, in order of creation
    route,        \* the frame of the route handler that is running
    responses,    \* what the route handlers have sent to their clients
    calls,        \* the calls of the Memory methods made so far
    transport,    \* the frame of one generate_text_stream and the body it reads
    streams,      \* the frames of the stream generators that run concurrently
    account,      \* the security columns of the user who logs in
    now           \* the time of datetime.now(timezone.utc), in hours

\* The state of the LLM client, and the state of the application around it.
client == <<entry, max_retries, delay, text, cuts, outcomes, requests, sleeps,
            lp, gr, st, events, model, image_base64, prompt, images, posts>>

app == <<user, memories, route, responses, calls>>

\* The state of the parts that are modelled on their own.
aside == <<transport, streams, account, now>>

vars == <<entry, max_retries, delay, text, cuts, outcomes, requests, sleeps,
          lp, gr, st, events, model, image_base64, prompt, images, posts,
          user, memories, route, responses, calls,
          transport, streams, account, now>>

\* What one call of generate_text can do: return a finished response with
\* text, return {done: true, response: ""}, return {done: false}, raise a
\* requests.exceptions.RequestException, or time out.
AtomicOutcomes == {"ok", "empty", "not_done", "request_exception", "timeout"}

\* What one call of generate_text_stream can do: yield the fragments of the
\* text and end, end without a fragment, or raise (at the request or
\* between two fragments).
StreamOutcomes == {"ok", "empty", "request_exception", "timeout"}

Raising == {"request_exception", "timeout"}

\* The exception a failed attempt leaves: lines 157-162 and 108-113 turn a
\* requests Timeout into TimeoutError and re-raise the rest; lines 204 and
\* 393 raise ValueError for a response that is empty or not done.
ExcOf(o) ==
    CASE o = "timeout" -> "TimeoutError"
      [] o = "request_exception" -> "RequestException"
      [] OTHER -> "ValueError"

None == [some |-> FALSE, value |-> << >>]
Some(v) == [some |-> TRUE, value |-> v]

NoTriple == [some |-> FALSE, reflection |-> << >>, weight |-> 0, tags |-> << >>]

IdleLp == [pc |-> "idle", max_retries |-> 0, attempt |-> 0, retry_delay |-> 0,
           result |-> None, exc |-> ""]
IdleGr == [pc |-> "idle", attempt |-> 0, retry_delay |-> 0,
           result |-> NoTriple, exc |-> ""]
IdleSt == [pc |-> "idle", attempt |-> 0, retry_delay |-> 0, full_response |-> << >>,
           buffer |-> << >>, pos |-> 0, nfrag |-> 0, outcome |-> "", exc |-> ""]

\* The frame of generate_with_long_polling at its first line.
EnterLp(m, d) == [IdleLp EXCEPT !.pc = "loop", !.max_retries = m, !.retry_delay = d]

\* Lines 240-243 and 356-359: the substrings of a model name that make it a
\* vision model.
VisionMarkers ==
    {<<"v","i","s","i","o","n">>, <<"l","l","a","v","a">>,
     <<"l","l","a","m","a","3",".","1">>, <<"c","l","a","u","d","e">>,
     <<"g","p","t","-","4","v">>, <<"g","e","m","i","n","i">>}

\* any(vision_model in model.lower() for vision_model in [...])
IsVisionModel(name) ==
    \E marker \in VisionMarkers : \E i \in 1..Len(name) : MatchLit(name, i, marker)

\* Lines 490-491 of _generate_ai_confidant_prompt: what the prompt holds
\* besides the memory, the tone and the fixed instructions.
GenerateAiConfidantPrompt(image) ==
    [image_section |-> IF image # ""
                       THEN <<"\nAttached image (base64): ", image, "\n">>
                       ELSE << >>]

\* Lines 245-252 and 361-368: the locals prompt and images.
PromptAndImages(name, image) ==
    IF IsVisionModel(name) /\ image # ""
    THEN [prompt |-> GenerateAiConfidantPrompt(""), images |-> Some(<<image>>)]
    ELSE [prompt |-> GenerateAiConfidantPrompt(image), images |-> None]

\* LLMGenerateRequest(...).model_dump(): the schema declares model, prompt
\* and stream; a keyword it does not declare is ignored.
LLMGenerateRequest(name, prompt_text, stream, image_list) ==
    [model |-> name, prompt |-> prompt_text, stream |-> stream]

\* "llama3:8b", the model the routes ask for.
DefaultModel == <<"l","l","a","m","a","3",":","8","b">>

\* ------------------------------------------------------------- encryption

\* The keys Fernet accepts: models/user.py line 41 generates one for a user.
Keys == {"k1", "k2"}

\* A text Fernet rejects as a key: Fernet(key) raises ValueError.
BadKey == "short"

\* b'', the default of the two binary columns.
EmptyBytes == [kind |-> "empty", key |-> "", plain |-> << >>]

\* b'corrupted_data': bytes that are no token of any key.
CorruptedData == [kind |-> "corrupt", key |-> "", plain |-> << >>]

\* cipher.encrypt(plain) for cipher = Fernet(key): a token that only the key
\* it was made with opens.
Encrypt(plain, key) == [kind |-> "token", key |-> key, plain |-> plain]

\* What cipher.decrypt gives in place of a text when it raises.
InvalidToken == [some |-> FALSE, value |-> << >>, exc |-> "InvalidToken"]

\* A decryption that opens a token with any key.
DecryptAnyKey(token, key) ==
    IF token.kind = "token" THEN Some(token.plain) ELSE InvalidToken

\* cipher.decrypt(token) for cipher = Fernet(key): the plain text of a token
\* made with key; for any other bytes the library raises InvalidToken.
Decrypt(token, key) ==
    IF token.kind = "token" /\ token.key = key
    THEN Some(token.plain) ELSE InvalidToken

\* An exception is on its way out of the expression that gave v.
Raised(v) == "exc" \in DOMAIN v

\* ------------------------------------------------------------ Memory rows

\* The weight of a memory that nothing has weighted yet: 0 means unset.
UnsetWeight == 0

\* Memory(...) after db.session.add and commit: the columns with their
\* defaults.
NewMemory(id) ==
    [id |-> id, encrypted_content |-> EmptyBytes, model_response |-> EmptyBytes,
     memory_weight |-> UnsetWeight, tags |-> << >>]

\* The content encrypted under a key of its own instead of the caller's.
SetContentOwnKey(self, content, key) ==
    [self EXCEPT !.encrypted_content = Encrypt(content, "k2")]

set_content(self, content, key) ==
    [self EXCEPT !.encrypted_content = Encrypt(content, key)]

\* Lines 64-70: the except clause turns a failed decryption into None.
get_content(self, key) ==
    IF Raised(Decrypt(self.encrypted_content, key))
    THEN None ELSE Decrypt(self.encrypted_content, key)

set_model_response(self, model_response, key) ==
    [self EXCEPT !.model_response = Encrypt(model_response, key)]

\* Lines 76-82
get_model_response(self, key) ==
    IF Raised(Decrypt(self.model_response, key))
    THEN None ELSE Decrypt(self.model_response, key)

\* Memory._decrypt(data, key): the plain text, or None when data does not
\* decrypt under key.
MemoryDecrypt(data, key) ==
    IF Raised(Decrypt(data, key)) THEN None ELSE Decrypt(data, key)

\* ",".join(tags)
RECURSIVE JoinComma(_)
JoinComma(tags) ==
    IF tags = << >> THEN << >>
    ELSE IF Len(tags) = 1 THEN tags[1]
    ELSE tags[1] \o <<",">> \o JoinComma(Tail(tags))

\* self.tags.split(',') if self.tags else []
RECURSIVE SplitTags(_)
SplitTags(s) ==
    IF s = << >> THEN << >>
    ELSE IF \E i \in 1..Len(s) : s[i] = ","
    THEN LET i == CHOOSE j \in 1..Len(s) :
                      s[j] = "," /\ \A h \in 1..(j - 1) : s[h] # ","
             rest == SubSeq(s, i + 1, Len(s))
         IN  <<SubSeq(s, 1, i - 1)>>
             \o (IF rest = << >> THEN << << >> >> ELSE SplitTags(rest))
    ELSE <<s>>

to_dict(self, key) ==
    [id |-> self.id,
     content |-> get_content(self, key),
     model_response |-> get_model_response(self, key),
     tags |-> SplitTags(self.tags)]

to_dict_with_keys(self, encryption_key, model_key) ==
    [id |-> self.id,
     content |-> get_content(self, encryption_key),
     model_response |-> get_model_response(self, model_key),
     tags |-> SplitTags(self.tags)]

\* No route handler is running.
IdleRoute ==
    [name |-> "idle", memory_id |-> 0, content |-> << >>, stream |-> FALSE,
     tone |-> "", forwarded |-> 0]

\* The application around a client that is called on its own.
\* No transport stream is read, no generators run side by side, nobody logs in.
RestIdle ==
    /\ transport = [pc |-> "idle"]
    /\ streams = << >>
    /\ account = [email |-> ""]
    /\ now = 0

\* No route has been called.
AppIdle ==
    /\ user = [encryption_key |-> "k1"]
    /\ memories = << >>
    /\ route = IdleRoute
    /\ responses = << >>
    /\ calls = << >>

NoApp == AppIdle /\ RestIdle


\* The state when the caller has just invoked entry point e with a model
\* name and an image.
InvokeWith(e, m, d, t, c, name, image) ==
    /\ NoApp
    /\ entry = e
    /\ model = name
    /\ image_base64 = image
    /\ prompt = PromptAndImages(name, image).prompt
    /\ images = PromptAndImages(name, image).images
    /\ posts = << >>
    /\ max_retries = m
    /\ delay = d
    /\ text = t
    /\ cuts = c
    /\ outcomes = << >>
    /\ requests = 0
    /\ sleeps = << >>
    /\ lp = IF e = "long_polling" THEN EnterLp(m, d) ELSE IdleLp
    /\ gr = IF e = "reflection"
            THEN [IdleGr EXCEPT !.pc = "loop", !.retry_delay = d] ELSE IdleGr
    /\ st = IF e = "stream"
            THEN [IdleSt EXCEPT !.pc = "loop", !.retry_delay = d] ELSE IdleSt
    /\ events = << >>

\* The state when the caller has just invoked entry point e without an image.
Invoke(e, m, d, t, c) == InvokeWith(e, m, d, t, c, DefaultModel, "")

\* ------------------------------------------------- the retry bookkeeping

\* The bound written as max_retries instead of max_retries - 1.
IsLastAttemptOffByOne(attempt, m) == ~(attempt < m)

\* "if attempt < max_retries - 1" is false: this was the last attempt.
IsLastAttempt(attempt, m) == ~(attempt < m - 1)

\* The delay left as it is: no backoff.
NextDelayConstant(d) == d

\* retry_delay *= 2
NextDelay(d) == d * 2

\* ------------------------------------- generate_with_long_polling (167-213)

\* One iteration of the loop at line 188: a request, then the return, the
\* sleep before the next attempt, or the raise after the last one. The else
\* branch (199-204) and the except branch (206-213) sleep and raise alike.
LpAttempt(o) ==
    /\ lp.pc = "loop"
    /\ lp.attempt < lp.max_retries
    /\ requests' = requests + 1
    /\ posts' = Append(posts, LLMGenerateRequest(model, prompt, FALSE, images))
    /\ outcomes' = Append(outcomes, o)
    /\ IF o = "ok"
       THEN /\ lp' = [lp EXCEPT !.pc = "returned", !.result = Some(text)]
            /\ UNCHANGED sleeps
       ELSE IF IsLastAttempt(lp.attempt, lp.max_retries)
       THEN /\ lp' = [lp EXCEPT !.pc = "raised", !.exc = ExcOf(o)]
            /\ UNCHANGED sleeps
       ELSE /\ sleeps' = Append(sleeps, lp.retry_delay)
            /\ lp' = [lp EXCEPT !.attempt = @ + 1, !.retry_delay = NextDelay(@)]
    /\ UNCHANGED <<app, aside, entry, max_retries, delay, text, cuts, model, image_base64,
                   prompt, images, gr, st, events>>

\* range(max_retries) is empty: the function ends without a return statement.
LpFallThrough ==
    /\ lp.pc = "loop"
    /\ lp.attempt >= lp.max_retries
    /\ lp' = [lp EXCEPT !.pc = "returned", !.result = None]
    /\ UNCHANGED <<app, aside, entry, max_retries, delay, text, cuts, model, image_base64,
                   prompt, images, posts, outcomes, requests,
                   sleeps, gr, st, events>>

\* --------------------------- generate_reflection_weight_and_tags (332-402)

\* Lines 370-381: the call of generate_with_long_polling with max_retries=1.
GrCall ==
    /\ gr.pc = "loop"
    /\ gr.attempt < max_retries
    /\ lp' = EnterLp(1, gr.retry_delay)
    /\ gr' = [gr EXCEPT !.pc = "calling"]
    /\ UNCHANGED <<app, aside, entry, max_retries, delay, text, cuts, model, image_base64,
                   prompt, images, posts, outcomes, requests,
                   sleeps, st, events>>

\* Lines 383-402: the inner call has returned or raised.
GrResume ==
    /\ gr.pc = "calling"
    /\ lp.pc \in {"returned", "raised"}
    /\ lp' = IdleLp
    /\ IF lp.pc = "returned" /\ lp.result.some /\ lp.result.value # << >>
       THEN /\ gr' = [gr EXCEPT !.pc = "returned",
                         !.result = [some |-> TRUE] @@
                                    ExtractReflectionWeightAndTags(lp.result.value)]
            /\ UNCHANGED sleeps
       ELSE IF IsLastAttempt(gr.attempt, max_retries)
       THEN /\ gr' = [gr EXCEPT !.pc = "raised",
                         !.exc = IF lp.pc = "raised" THEN lp.exc ELSE "ValueError"]
            /\ UNCHANGED sleeps
       ELSE /\ sleeps' = Append(sleeps, gr.retry_delay)
            /\ gr' = [gr EXCEPT !.pc = "loop", !.attempt = @ + 1,
                                !.retry_delay = NextDelay(@)]
    /\ UNCHANGED <<app, aside, entry, max_retries, delay, text, cuts, model, image_base64,
                   prompt, images, posts, outcomes, requests,
                   st, events>>

\* range(max_retries) is empty: the function ends without a return statement.
GrFallThrough ==
    /\ gr.pc = "loop"
    /\ gr.attempt >= max_retries
    /\ gr' = [gr EXCEPT !.pc = "returned", !.result = NoTriple]
    /\ UNCHANGED <<app, aside, entry, max_retries, delay, text, cuts, model, image_base64,
                   prompt, images, posts, outcomes, requests,
                   sleeps, lp, st, events>>


\* ------------------------- generate_reflection_and_weight_stream (215-330)

\* The dictionaries the generator yields; a field an event type does not
\* carry is left at its empty value.
Event(type, attempt) ==
    [type |-> type, attempt |-> attempt, content |-> << >>, reflection |-> << >>,
     weight |-> 0, tags |-> << >>, error |-> ""]

\* Lines 282-288
ChunkEvent(content, attempt) == [Event("chunk", attempt) EXCEPT !.content = content]

\* Line 324
ErrorEvent(exc, attempt) == [Event("error", attempt) EXCEPT !.error = exc]

\* The reflection of "complete" left as extracted, without lines 294-297.
CompleteEventUncleaned(full_response, attempt) ==
    IF full_response # << >>
    THEN Let(ExtractReflectionWeightAndTags(full_response), LAMBDA x :
             [Event("complete", attempt) EXCEPT
                 !.reflection = x.reflection, !.weight = x.weight, !.tags = x.tags])
    ELSE Event("complete", attempt)

\* An empty stream reported as a failure, as the atomic path does (line 204).
CompleteEventOrError(full_response, attempt) ==
    IF full_response # << >>
    THEN Let(ExtractReflectionWeightAndTags(full_response), LAMBDA x :
             [Event("complete", attempt) EXCEPT
                 !.reflection = CleanReflection(x.reflection),
                 !.weight = x.weight, !.tags = x.tags])
    ELSE ErrorEvent("ValueError", attempt)

\* Lines 292-320: the event yielded when the fragment loop has ended.
CompleteEvent(full_response, attempt) ==
    IF full_response # << >>
    THEN Let(ExtractReflectionWeightAndTags(full_response), LAMBDA x :
             [Event("complete", attempt) EXCEPT
                 !.reflection = CleanReflection(x.reflection),
                 !.weight = x.weight, !.tags = x.tags])
    ELSE Event("complete", attempt)

\* Line 281: "if filtered_buffer.strip()"
Flushes(filtered_buffer) == Strip(filtered_buffer) # << >>

\* An attempt that starts with the accumulators of the attempt before it.
StreamRequestKeeps(o) ==
    /\ st.pc = "loop"
    /\ st.attempt < max_retries
    /\ requests' = requests + 1
    /\ posts' = Append(posts, LLMGenerateRequest(model, prompt, TRUE, images))
    /\ outcomes' = Append(outcomes, o)
    /\ st' = [st EXCEPT !.pc = "streaming",
                        !.pos = 0, !.nfrag = 0, !.outcome = o]
    /\ UNCHANGED <<app, aside, entry, max_retries, delay, text, cuts, model, image_base64,
                   prompt, images, sleeps, lp, gr, events>>

\* Line 261: generate_text_stream is called and sends its request; outcome o
\* is what this request will do.
StreamRequest(o) ==
    /\ st.pc = "loop"
    /\ st.attempt < max_retries
    /\ requests' = requests + 1
    /\ posts' = Append(posts, LLMGenerateRequest(model, prompt, TRUE, images))
    /\ outcomes' = Append(outcomes, o)
    /\ st' = [st EXCEPT !.pc = "streaming", !.full_response = << >>, !.buffer = << >>,
                        !.pos = 0, !.nfrag = 0, !.outcome = o]
    /\ UNCHANGED <<app, aside, entry, max_retries, delay, text, cuts, model, image_base64,
                   prompt, images, sleeps, lp, gr, events>>

\* Lines 261-289: the fragment text[pos+1..k] arrives. A request that will
\* end normally delivers the whole text in at most MaxFragments fragments.
StreamChunk(k) ==
    /\ st.pc = "streaming"
    /\ st.outcome # "empty"
    /\ st.nfrag < MaxFragments
    /\ k \in cuts
    /\ k > st.pos
    /\ (st.outcome = "ok" /\ st.nfrag = MaxFragments - 1) => k = Len(text)
    /\ LET chunk == Slice(text, st.pos + 1, k)
           buffer == st.buffer \o chunk
           filtered_buffer == FilterBuffer(buffer)
       IN /\ st' = [st EXCEPT !.full_response = @ \o chunk,
                              !.buffer = IF Flushes(filtered_buffer) THEN << >> ELSE buffer,
                              !.pos = k, !.nfrag = @ + 1]
          /\ events' = IF Flushes(filtered_buffer)
                       THEN Append(events, ChunkEvent(filtered_buffer, st.attempt + 1))
                       ELSE events
    /\ UNCHANGED <<app, aside, entry, max_retries, delay, text, cuts, model, image_base64,
                   prompt, images, posts, outcomes, requests,
                   sleeps, lp, gr>>

\* "complete" computed from what is left in buffer, not from full_response.
StreamEndFromBuffer ==
    /\ st.pc = "streaming"
    /\ \/ st.outcome = "ok" /\ st.pos = Len(text)
       \/ st.outcome = "empty"
    /\ events' = Append(events, CompleteEvent(st.buffer, st.attempt + 1))
    /\ st' = [st EXCEPT !.pc = "returned"]
    /\ UNCHANGED <<app, aside, entry, max_retries, delay, text, cuts, model, image_base64,
                   prompt, images, posts, outcomes, requests,
                   sleeps, lp, gr>>

\* Lines 291-320: the fragment stream has ended; "complete" is yielded and
\* the generator returns.
StreamEnd ==
    /\ st.pc = "streaming"
    /\ \/ st.outcome = "ok" /\ st.pos = Len(text)
       \/ st.outcome = "empty"
    /\ events' = Append(events, CompleteEvent(st.full_response, st.attempt + 1))
    /\ st' = [st EXCEPT !.pc = "returned"]
    /\ UNCHANGED <<app, aside, entry, max_retries, delay, text, cuts, model, image_base64,
                   prompt, images, posts, outcomes, requests,
                   sleeps, lp, gr>>

\* Lines 322-324: generate_text_stream raises; "error" is yielded.
StreamError ==
    /\ st.pc = "streaming"
    /\ st.outcome \in Raising
    /\ events' = Append(events, ErrorEvent(ExcOf(st.outcome), st.attempt + 1))
    /\ st' = [st EXCEPT !.pc = "yielded_error", !.exc = ExcOf(st.outcome)]
    /\ UNCHANGED <<app, aside, entry, max_retries, delay, text, cuts, model, image_base64,
                   prompt, images, posts, outcomes, requests,
                   sleeps, lp, gr>>

\* Lines 325-330: the consumer pulls again after the "error" event.
StreamResume ==
    /\ st.pc = "yielded_error"
    /\ IF IsLastAttempt(st.attempt, max_retries)
       THEN /\ st' = [st EXCEPT !.pc = "raised"]
            /\ UNCHANGED sleeps
       ELSE /\ sleeps' = Append(sleeps, st.retry_delay)
            /\ st' = [st EXCEPT !.pc = "loop", !.attempt = @ + 1,
                                !.retry_delay = NextDelay(@)]
    /\ UNCHANGED <<app, aside, entry, max_retries, delay, text, cuts, model, image_base64,
                   prompt, images, posts, outcomes, requests,
                   lp, gr, events>>

\* range(max_retries) is empty: the generator ends without an event.
StreamFallThrough ==
    /\ st.pc = "loop"
    /\ st.attempt >= max_retries
    /\ st' = [st EXCEPT !.pc = "returned"]
    /\ UNCHANGED <<app, aside, entry, max_retries, delay, text, cuts, model, image_base64,
                   prompt, images, posts, outcomes, requests,
                   sleeps, lp, gr, events>>

\* --------------------------------------------------------- specifications

EntryPoints == {"long_polling", "reflection", "stream"}

\* The responses of the retry specification: "ok 7" and "3 a".
SmallTexts == {<<"o","k"," ","7">>, <<"3"," ","a">>}

Init ==
    \E e \in EntryPoints, m \in 0..MaxRetries, d \in 1..MaxDelay, t \in SmallTexts :
        Invoke(e, m, d, t, 1..Len(t))

Next ==
    \/ \E o \in AtomicOutcomes : LpAttempt(o)
    \/ LpFallThrough
    \/ GrCall
    \/ GrResume
    \/ GrFallThrough
    \/ \E o \in StreamOutcomes : StreamRequest(o)
    \/ \E k \in 1..Len(text) : StreamChunk(k)
    \/ StreamEnd
    \/ StreamError
    \/ StreamResume
    \/ StreamFallThrough

Spec == Init /\ [][Next]_vars


\* ---- the streaming filter on the texts of the leak-prevention property

\* "...the weight is 7 out of 10 TAGS: calm, focus"
LeakText ==
    <<".",".",".","t","h","e"," ","w","e","i","g","h","t"," ","i","s",
      " ","7"," ","o","u","t"," ","o","f"," ","1","0"," ","T","A","G",
      "S",":"," ","c","a","l","m",","," ","f","o","c","u","s">>

\* "...the weight is 7."
StraddleText ==
    <<".",".",".","t","h","e"," ","w","e","i","g","h","t"," ","i","s",
      " ","7",".">>

InitLeak ==
    \E t \in {LeakText, StraddleText} : Invoke("stream", 1, 1, t, 1..Len(t))

NextLeak ==
    \/ StreamRequest("ok")
    \/ \E k \in 1..Len(text) : StreamChunk(k)
    \/ StreamEnd

SpecLeak == InitLeak /\ [][NextLeak]_vars

\* ---- extraction, atomic and streamed, on texts made of model tokens

\* The tokens a response is made of; a streamed fragment is one token or
\* several.
\* "Ok."
Piece1 == <<"O","k",".">>
\* " Weight: 8"
Piece2 == <<" ","W","e","i","g","h","t",":"," ","8">>
\* "Weight: 15"
Piece3 == <<"W","e","i","g","h","t",":"," ","1","5">>
\* " 7"
Piece4 == <<" ","7">>
\* "\nTAGS: a, b"
Piece5 == <<"\n","T","A","G","S",":"," ","a",","," ","b">>
\* "the weight is 7."
Piece6 == <<"t","h","e"," ","w","e","i","g","h","t"," ","i","s"," ","7",".">>
\* "I have 3 cats"
Piece7 == <<"I"," ","h","a","v","e"," ","3"," ","c","a","t","s">>
\* "**Weight: 3**"
Piece8 == <<"*","*","W","e","i","g","h","t",":"," ","3","*","*">>
\* " 11"
Piece9 == <<" ","1","1">>
\* "TAGS:"
Piece10 == <<"T","A","G","S",":">>
\* " "
Piece11 == <<" ">>
\* "Weight: 0"
Piece12 == <<"W","e","i","g","h","t",":"," ","0">>
\* "This memory holds a weight of 4."
Piece13 == <<"T","h","i","s"," ","m","e","m","o","r","y"," ","h","o","l","d","s"," ",
             "a"," ","w","e","i","g","h","t"," ","o","f"," ","4",".">>
\* ", ,"
Piece14 == <<","," ",",">>

Pieces == {Piece1, Piece2, Piece3, Piece4, Piece5, Piece6, Piece7, Piece8, Piece9, Piece10,
           Piece11, Piece12, Piece13, Piece14}

PieceSeqs == UNION {[1..n -> Pieces] : n \in 1..MaxPieces}

RECURSIVE Flatten(_)
Flatten(ps) == IF ps = << >> THEN << >> ELSE Head(ps) \o Flatten(Tail(ps))

\* The positions of Flatten(ps) at which a token ends.
TokenEnds(ps) == {Len(Flatten(SubSeq(ps, 1, n))) : n \in 1..Len(ps)}

InitExtract ==
    \E e \in {"reflection", "stream"}, ps \in PieceSeqs :
        Invoke(e, 1, 1, Flatten(ps), TokenEnds(ps))

NextExtract ==
    \/ LpAttempt("ok")
    \/ GrCall
    \/ GrResume
    \/ StreamRequest("ok")
    \/ \E k \in 1..Len(text) : StreamChunk(k)
    \/ StreamEnd

SpecExtract == InitExtract /\ [][NextExtract]_vars


\* ---- extraction on responses of the form the prompt asks for

\* "Ok.", " I have 3 cats " and the reflection of the documented scenario.
Reflection1 == <<"O","k",".">>
Reflection2 == <<" ","I"," ","h","a","v","e"," ","3"," ","c","a","t","s"," ">>
Reflection3 ==
    <<"T","h","i","s"," ","s","o","u","n","d","s"," ","l","i","k","e"," ","a"," ",
      "j","o","y","f","u","l",","," ","c","o","n","n","e","c","t","i","n","g"," ",
      "m","o","m","e","n","t",".">>
Reflections == {Reflection1, Reflection2, Reflection3}

TagNames == {<<"f","a","m","i","l","y">>, <<"j","o","y">>, <<"b","e","a","c","h">>}

TagLists == UNION {[1..n -> TagNames] : n \in 1..MaxTags}

\* The decimal numeral of n in 0..10.
Numeral(n) ==
    IF n = 10 THEN <<"1","0">> ELSE <<CHOOSE c \in Digits : DigitValue(c) = n>>

\* "t1, t2, t3"
RECURSIVE JoinTags(_)
JoinTags(ts) ==
    IF Len(ts) = 1 THEN ts[1] ELSE ts[1] \o <<","," ">> \o JoinTags(Tail(ts))

\* R + " Weight: N" + newline + "TAGS: t1, t2, t3"
ScenarioText(R, N, ts) ==
    R \o <<" ","W","e","i","g","h","t",":"," ">> \o Numeral(N)
      \o <<"\n","T","A","G","S",":"," ">> \o JoinTags(ts)

InitScenario ==
    \E R \in Reflections, N \in 1..10, ts \in TagLists :
        Invoke("reflection", 1, 1, ScenarioText(R, N, ts), {Len(ScenarioText(R, N, ts))})

NextScenario ==
    \/ LpAttempt("ok")
    \/ GrCall
    \/ GrResume

SpecScenario == InitScenario /\ [][NextScenario]_vars

\* ---- extraction on responses in the FORMAT of the prompt (lines 539-542)

\* R, then a line with the bare number N, then the line "TAGS: t1, t2, t3"
FormatText(R, N, ts) ==
    R \o <<"\n">> \o Numeral(N) \o <<"\n","T","A","G","S",":"," ">> \o JoinTags(ts)

\* The ends of the three lines of such a response.
LineEnds(R, N, ts) ==
    {Len(R) + 1, Len(R) + 1 + Len(Numeral(N)) + 1, Len(FormatText(R, N, ts))}

InitFormat ==
    \E e \in {"reflection", "stream"}, R \in Reflections, N \in 1..10, ts \in TagLists :
        Invoke(e, 1, 1, FormatText(R, N, ts), LineEnds(R, N, ts))

NextFormat ==
    \/ LpAttempt("ok")
    \/ GrCall
    \/ GrResume
    \/ StreamRequest("ok")
    \/ \E k \in 1..Len(text) : StreamChunk(k)
    \/ StreamEnd

SpecFormat == InitFormat /\ [][NextFormat]_vars

\* ---- the image on its way to the transport

\* "llama3:8b", "llava:7b", "LLaVA"
ModelNames ==
    {DefaultModel, <<"l","l","a","v","a",":","7","b">>, <<"L","L","a","V","A">>}

\* No image, or the base64 text of one.
Images == {"", "iVBORw0KGgo="}

InitImage ==
    \E e \in {"reflection", "stream"}, m \in 1..MaxRetries, name \in ModelNames,
       image \in Images :
        InvokeWith(e, m, 1, <<"o","k"," ","7">>, {2, 4}, name, image)

NextImage ==
    \/ \E o \in AtomicOutcomes : LpAttempt(o)
    \/ GrCall
    \/ GrResume
    \/ \E o \in StreamOutcomes : StreamRequest(o)
    \/ \E k \in 1..Len(text) : StreamChunk(k)
    \/ StreamEnd
    \/ StreamError
    \/ StreamResume

SpecImage == InitImage /\ [][NextImage]_vars

\* ------------------------------------------- the Memory methods, called

\* The client when no route has called it.
ClientIdle ==
    /\ entry = "none"
    /\ model = DefaultModel
    /\ image_base64 = ""
    /\ prompt = PromptAndImages(DefaultModel, "").prompt
    /\ images = PromptAndImages(DefaultModel, "").images
    /\ posts = << >>
    /\ max_retries = 0
    /\ delay = 1
    /\ text = << >>
    /\ cuts = {}
    /\ outcomes = << >>
    /\ requests = 0
    /\ sleeps = << >>
    /\ lp = IdleLp
    /\ gr = IdleGr
    /\ st = IdleSt
    /\ events = << >>

\* The number of method calls one behaviour makes.
MaxCalls == 3

\* "hi", "ok"
Plaintexts == {<<"h","i">>, <<"o","k">>}

\* One call of a method of memory id: the method, the key and the text it
\* was given, whether it raised, and what it returned.
Call(op, id, key, arg, raised, result) ==
    [op |-> op, id |-> id, key |-> key, arg |-> arg, raised |-> raised,
     result |-> result]

\* memory.set_content(x, k): Fernet(k) raises on a key it rejects, before
\* the column is assigned.
SetContent(i, x, k) ==
    /\ Len(calls) < MaxCalls
    /\ memories' = IF k \in Keys
                   THEN [memories EXCEPT ![i] = set_content(@, x, k)]
                   ELSE memories
    /\ calls' = Append(calls, Call("set_content", i, k, x, k \notin Keys, None))
    /\ UNCHANGED <<client, aside, user, route, responses>>

\* memory.get_content(k): Fernet(k) is built outside the try.
GetContent(i, k) ==
    /\ Len(calls) < MaxCalls
    /\ calls' = Append(calls,
                       Call("get_content", i, k, << >>, k \notin Keys,
                            IF k \in Keys THEN get_content(memories[i], k)
                            ELSE None))
    /\ UNCHANGED <<client, aside, user, memories, route, responses>>

\* memory.set_model_response(x, k)
SetModelResponse(i, x, k) ==
    /\ Len(calls) < MaxCalls
    /\ memories' = IF k \in Keys
                   THEN [memories EXCEPT ![i] = set_model_response(@, x, k)]
                   ELSE memories
    /\ calls' = Append(calls,
                       Call("set_model_response", i, k, x, k \notin Keys, None))
    /\ UNCHANGED <<client, aside, user, route, responses>>

\* memory.get_model_response(k)
GetModelResponse(i, k) ==
    /\ Len(calls) < MaxCalls
    /\ calls' = Append(calls,
                       Call("get_model_response", i, k, << >>, k \notin Keys,
                            IF k \in Keys THEN get_model_response(memories[i], k)
                            ELSE None))
    /\ UNCHANGED <<client, aside, user, memories, route, responses>>

\* One memory of one user, and the four methods called on it in any order
\* with any keys.
InitCrypt ==
    /\ ClientIdle
    /\ user \in {[encryption_key |-> k] : k \in Keys}
    /\ memories = <<NewMemory(1)>>
    /\ route = IdleRoute
    /\ responses = << >>
    /\ calls = << >>
    /\ RestIdle

NextCrypt ==
    \/ \E x \in Plaintexts, k \in Keys \cup {BadKey} : SetContent(1, x, k)
    \/ \E k \in Keys \cup {BadKey} : GetContent(1, k)
    \/ \E x \in Plaintexts, k \in Keys \cup {BadKey} : SetModelResponse(1, x, k)
    \/ \E k \in Keys \cup {BadKey} : GetModelResponse(1, k)

SpecCrypt == InitCrypt /\ [][NextCrypt]_vars

\* ------------------------------------------------------ the route handlers

\* max_retries and retry_delay as the task route passes them.
TaskMaxRetries == 3
TaskRetryDelay == 1

\* The number of memories one behaviour creates, and the number of answers
\* it collects from the routes that create none.
MaxMemories == 2
MaxResponses == 1

\* An answer that belongs to no created memory: a rejected task, or the
\* answer of another route.
Unstored(r) == r.route # "task" \/ r.status = 400

\* One more such answer is within the bound.
MayAnswer == Len(SelectSeq(responses, Unstored)) < MaxResponses

\* user.tone if user.tone else "empathetic", for a user who has set no tone.
UserTone == "empathetic"

\* The bodies a client posts to /api/task: without "content" or with the
\* content "hi", and with "stream" false or true.
TaskRequests ==
    {[content |-> c, stream |-> b] :
        c \in {None, Some(<<"h","i">>)}, b \in BOOLEAN}

\* The texts the model generates for a task: "ok 7" and "hm 8\nTAGS: a,b".
TaskTexts ==
    {<<"o","k"," ","7">>,
     <<"h","m"," ","8","\n","T","A","G","S",":"," ","a",",","b">>}

\* A route calls entry point e of the client; the model will generate t, in
\* fragments that end at the positions c.
CallClient(e, t, c) ==
    /\ entry' = e
    /\ model' = DefaultModel
    /\ image_base64' = ""
    /\ prompt' = PromptAndImages(DefaultModel, "").prompt
    /\ images' = PromptAndImages(DefaultModel, "").images
    /\ posts' = << >>
    /\ max_retries' = TaskMaxRetries
    /\ delay' = TaskRetryDelay
    /\ text' = t
    /\ cuts' = c
    /\ outcomes' = << >>
    /\ requests' = 0
    /\ sleeps' = << >>
    /\ lp' = IdleLp
    /\ gr' = IF e = "reflection"
             THEN [IdleGr EXCEPT !.pc = "loop", !.retry_delay = TaskRetryDelay]
             ELSE IdleGr
    /\ st' = IF e = "stream"
             THEN [IdleSt EXCEPT !.pc = "loop", !.retry_delay = TaskRetryDelay]
             ELSE IdleSt
    /\ events' = << >>

\* The route has answered: the frames of its call of the client are gone.
ClientDone ==
    /\ entry' = "none"
    /\ text' = << >>
    /\ cuts' = {}
    /\ max_retries' = 0
    /\ outcomes' = << >>
    /\ requests' = 0
    /\ sleeps' = << >>
    /\ posts' = << >>
    /\ lp' = IdleLp
    /\ gr' = IdleGr
    /\ st' = IdleSt
    /\ events' = << >>
    /\ UNCHANGED <<model, image_base64, prompt, images, delay>>

\* routes/task.py lines 22-95: POST /api/task. A body without "content" is
\* answered 400. Otherwise the memory is created with its content encrypted
\* under the user's key and committed, and the client is called.
TaskPost(data, t) ==
    /\ route = IdleRoute
    /\ IF ~data.content.some
       THEN /\ MayAnswer
            /\ responses' = Append(responses, [route |-> "task", status |-> 400])
            /\ UNCHANGED <<client, aside, user, memories, route, calls>>
       ELSE /\ Len(memories) < MaxMemories
            /\ memories' = Append(memories,
                                  set_content(NewMemory(Len(memories) + 1),
                                              data.content.value,
                                              user.encryption_key))
            /\ route' = [name |-> "task", memory_id |-> Len(memories) + 1,
                         content |-> data.content.value,
                         stream |-> data.stream, tone |-> UserTone,
                         forwarded |-> 0]
            /\ CallClient(IF data.stream THEN "stream" ELSE "reflection",
                          t, {Len(t)})
            /\ UNCHANGED <<aside, user, responses, calls>>

\* The reflection stored without the weight and the tags.
StoreReflectionOnly(memory, reflection, weight, tags, key) ==
    set_model_response(memory, reflection, key)

\* Lines 123-130 and 188-195: the weight, the encrypted reflection and the
\* joined tags are written to the memory.
StoreResult(memory, reflection, weight, tags, key) ==
    [set_model_response(memory, reflection, key) EXCEPT
        !.memory_weight = weight,
        !.tags = IF tags # << >> THEN JoinComma(tags) ELSE @]

\* One "data: ...\n\n" message of the event stream.
Sse(type) == [route |-> "task", status |-> 200, sse |-> TRUE, type |-> type]

\* generate_stream, if it passed an "error" event on without leaving its loop.
TaskStreamKeepsOpen ==
    /\ route.name = "task"
    /\ route.stream
    /\ route.forwarded < Len(events)
    /\ LET chunk_data == events[route.forwarded + 1]
           id == route.memory_id
       IN  CASE chunk_data.type = "chunk" ->
                  /\ responses' = Append(responses,
                         Sse("chunk") @@ [content |-> chunk_data.content])
                  /\ route' = [route EXCEPT !.forwarded = @ + 1]
                  /\ UNCHANGED <<memories, client>>
             [] chunk_data.type = "complete" ->
                  /\ memories' = [memories EXCEPT ![id] =
                         StoreResult(@, chunk_data.reflection, chunk_data.weight,
                                     chunk_data.tags, user.encryption_key)]
                  /\ responses' = Append(responses,
                         Sse("complete") @@
                         [reflection |-> chunk_data.reflection,
                          weight |-> chunk_data.weight,
                          tags |-> chunk_data.tags, memory_id |-> id])
                  /\ route' = IdleRoute
                  /\ ClientDone
             [] chunk_data.type = "error" ->
                  /\ responses' = Append(responses,
                         [route |-> "task", status |-> 200, sse |-> TRUE,
                          type |-> "error", error |-> chunk_data.error])
                  /\ route' = [route EXCEPT !.forwarded = @ + 1]
                  /\ UNCHANGED <<memories, client>>
    /\ UNCHANGED <<aside, user, calls>>

\* Lines 100-151: generate_stream takes the next event of the generator. A
\* "chunk" is passed on; "complete" is stored, committed and passed on, and
\* the loop is left; "error" is passed on and the loop is left.
TaskStream ==
    /\ route.name = "task"
    /\ route.stream
    /\ route.forwarded < Len(events)
    /\ LET chunk_data == events[route.forwarded + 1]
           id == route.memory_id
       IN  CASE chunk_data.type = "chunk" ->
                  /\ responses' = Append(responses,
                         Sse("chunk") @@ [content |-> chunk_data.content])
                  /\ route' = [route EXCEPT !.forwarded = @ + 1]
                  /\ UNCHANGED <<memories, client>>
             [] chunk_data.type = "complete" ->
                  /\ memories' = [memories EXCEPT ![id] =
                         StoreResult(@, chunk_data.reflection, chunk_data.weight,
                                     chunk_data.tags, user.encryption_key)]
                  /\ responses' = Append(responses,
                         Sse("complete") @@
                         [reflection |-> chunk_data.reflection,
                          weight |-> chunk_data.weight,
                          tags |-> chunk_data.tags, memory_id |-> id])
                  /\ route' = IdleRoute
                  /\ ClientDone
             [] chunk_data.type = "error" ->
                  /\ responses' = Append(responses,
                         Sse("error") @@ [error |-> chunk_data.error])
                  /\ route' = IdleRoute
                  /\ ClientDone
                  /\ UNCHANGED memories
    /\ UNCHANGED <<aside, user, calls>>

\* Lines 164-221 and 91-95: generate_reflection_weight_and_tags has returned
\* its triple, which is stored and answered 200, or has raised, which is
\* answered 500.
TaskRegular ==
    /\ route.name = "task"
    /\ ~route.stream
    /\ gr.pc \in {"returned", "raised"}
    /\ LET id == route.memory_id
       IN  IF gr.pc = "returned" /\ gr.result.some
           THEN /\ memories' = [memories EXCEPT ![id] =
                       StoreResult(@, gr.result.reflection, gr.result.weight,
                                   gr.result.tags, user.encryption_key)]
                /\ responses' = Append(responses,
                       [route |-> "task", status |-> 200, memory_id |-> id,
                        response |-> gr.result.reflection,
                        memory_weight |-> gr.result.weight,
                        tags |-> gr.result.tags])
           ELSE /\ responses' = Append(responses,
                                       [route |-> "task", status |-> 500])
                /\ UNCHANGED memories
    /\ route' = IdleRoute
    /\ ClientDone
    /\ UNCHANGED <<aside, user, calls>>

\* "if not x" for a decrypted text: None and "" are both false.
Truthy(v) == v.some /\ v.value # << >>

\* services/memory_weighting.py lines 14-34: LLMClient has no method
\* generate_reflection_and_weight, so line 20 raises AttributeError and the
\* except clause returns the default weight.
weight_memory(memory_content) == 5

\* routes/memory_weighting.py lines 19-77: POST /api/memory-weighting/weight
WeightMemoryPost(memory_id) ==
    /\ route = IdleRoute
    /\ MayAnswer
    /\ IF memory_id \notin 1..Len(memories)
       THEN /\ responses' = Append(responses, [route |-> "weight", status |-> 404])
            /\ UNCHANGED memories
       ELSE LET memory == memories[memory_id]
                key == user.encryption_key
                memory_content == MemoryDecrypt(memory.encrypted_content, key)
                memory_model_response == MemoryDecrypt(memory.model_response, key)
            IN  IF ~Truthy(memory_content) \/ ~Truthy(memory_model_response)
                THEN /\ responses' = Append(responses,
                                            [route |-> "weight", status |-> 400])
                     /\ UNCHANGED memories
                ELSE /\ memories' = [memories EXCEPT ![memory_id].memory_weight =
                                        weight_memory(memory_content.value)]
                     /\ responses' = Append(responses,
                            [route |-> "weight", status |-> 200,
                             memory_id |-> memory_id,
                             weight |-> weight_memory(memory_content.value)])
    /\ UNCHANGED <<client, aside, user, route, calls>>

\* The rows newest first: order_by(Memory.created_at.desc()).
NewestFirst(rows) == [n \in 1..Len(rows) |-> rows[Len(rows) + 1 - n]]

\* routes/memory.py lines 21-171: GET /api/memories without search or
\* grouping, with all memories on the page. An exception out of to_dict is
\* answered 500.
MemoryListGet ==
    /\ route = IdleRoute
    /\ MayAnswer
    /\ LET key == user.encryption_key
           rows == NewestFirst(memories)
           dicts == [n \in 1..Len(rows) |-> to_dict(rows[n], key)]
       IN  responses' = Append(responses,
               IF \E n \in 1..Len(dicts) :
                      Raised(dicts[n].content) \/ Raised(dicts[n].model_response)
               THEN [route |-> "memories", status |-> 500]
               ELSE [route |-> "memories", status |-> 200, memories |-> dicts])
    /\ UNCHANGED <<client, aside, user, memories, route, calls>>

\* routes/summary.py lines 13-36: the reflections of the recent memories that
\* decrypt under user.model_key. The User model has no attribute model_key:
\* line 17 raises AttributeError.
get_recent_memories(u, rows) ==
    IF "model_key" \notin DOMAIN u
    THEN [raised |-> TRUE, results |-> << >>]
    ELSE LET vals == [n \in 1..Len(rows) |->
                         get_model_response(NewestFirst(rows)[n], u.model_key)]
         IN  [raised |-> FALSE,
              results |-> [n \in 1..Len(SelectSeq(vals, Truthy)) |->
                              SelectSeq(vals, Truthy)[n].value]]

\* routes/summary.py lines 49-80: GET /api/summary/weekly. The exception of
\* get_recent_memories is not caught: the answer is 500. No reflection
\* gives 404; otherwise the reflections are summarised.
SummaryGet ==
    /\ route = IdleRoute
    /\ MayAnswer
    /\ LET r == get_recent_memories(user, memories)
       IN  responses' = Append(responses,
               IF r.raised THEN [route |-> "summary", status |-> 500]
               ELSE IF r.results = << >>
               THEN [route |-> "summary", status |-> 404]
               ELSE [route |-> "summary", status |-> 200, memories |-> r.results])
    /\ UNCHANGED <<client, aside, user, memories, route, calls>>

\* The number of columns one behaviour writes from outside the routes.
MaxWrites == 1

\* The columns that hold bytes the user's key does not open, although they
\* are not empty.
Damaged ==
    {ic \in (1..Len(memories)) \X {"encrypted_content", "model_response"} :
        LET bytes == IF ic[2] = "encrypted_content"
                     THEN memories[ic[1]].encrypted_content
                     ELSE memories[ic[1]].model_response
        IN  bytes # EmptyBytes /\ Raised(Decrypt(bytes, user.encryption_key))}

\* tests/test_summary.py lines 270-272: bytes are written to a column of a
\* stored memory behind the routes.
WriteColumn(i, column, bytes) ==
    /\ route = IdleRoute
    /\ i \in 1..Len(memories)
    /\ Cardinality(Damaged) < MaxWrites
    /\ <<i, column>> \notin Damaged
    /\ memories' = IF column = "encrypted_content"
                   THEN [memories EXCEPT ![i].encrypted_content = bytes]
                   ELSE [memories EXCEPT ![i].model_response = bytes]
    /\ UNCHANGED <<client, aside, user, route, responses, calls>>

\* The bytes such a write leaves: bytes that are no token, or a token of
\* another key.
ForeignBytes(u) ==
    {CorruptedData} \cup {Encrypt(<<"h","i">>, k) : k \in Keys \ {u.encryption_key}}

\* The steps of the client while a task route is waiting for it. The route
\* leaves its loop at the first "error" event, so the generator is never
\* resumed after one.
ClientSteps ==
    \/ \E o \in {"ok", "timeout"} : LpAttempt(o)
    \/ GrCall
    \/ GrResume
    \/ \E o \in {"ok", "empty", "timeout"} : StreamRequest(o)
    \/ \E k \in 1..Len(text) : StreamChunk(k)
    \/ StreamEnd
    \/ StreamError

InitApp ==
    /\ ClientIdle
    /\ user = [encryption_key |-> "k1"]
    /\ memories = << >>
    /\ route = IdleRoute
    /\ responses = << >>
    /\ calls = << >>
    /\ RestIdle

\* The routes that write memories and the routes that read them.
NextApp ==
    \/ \E data \in TaskRequests, t \in TaskTexts : TaskPost(data, t)
    \/ ClientSteps
    \/ TaskStream
    \/ TaskRegular
    \/ \E id \in 1..MaxMemories : WeightMemoryPost(id)
    \/ MemoryListGet
    \/ SummaryGet

SpecApp == InitApp /\ [][NextApp]_vars

\* The same routes over a table whose columns are also written from outside.
NextRead ==
    \/ \E t \in TaskTexts :
          TaskPost([content |-> Some(<<"h","i">>), stream |-> FALSE], t)
    \/ \E o \in {"ok", "timeout"} : LpAttempt(o)
    \/ GrCall
    \/ GrResume
    \/ TaskRegular
    \/ \E i \in 1..MaxMemories,
          column \in {"encrypted_content", "model_response"},
          bytes \in ForeignBytes(user) : WriteColumn(i, column, bytes)
    \/ MemoryListGet
    \/ SummaryGet

SpecRead == InitApp /\ [][NextRead]_vars

\* The bodies of /api/task with every kind of content: none, "" and "hi".
Submissions ==
    {[content |-> c, stream |-> b] :
        c \in {None, Some(<< >>), Some(<<"h","i">>)}, b \in BOOLEAN}

\* The task route alone, with every kind of submission.
NextSubmit ==
    \/ \E data \in Submissions, t \in TaskTexts : TaskPost(data, t)
    \/ ClientSteps
    \/ TaskStream
    \/ TaskRegular

SpecSubmit == InitApp /\ [][NextSubmit]_vars

\* ---- generate_text_stream reading the body of a response (lines 84-106)

MaxLines == 3

\* What iter_lines can deliver: an empty line, bytes that json.loads rejects,
\* JSON that is no object (5, "x", [1], null), and a JSON object, given by
\* its keys "response" and "done" (None: the key is absent).
BlankLine == [kind |-> "blank"]
NotJsonLine == [kind |-> "text"]
ScalarLine == [kind |-> "scalar"]
ObjectLine(response, done) ==
    [kind |-> "object", data |-> [response |-> response, done |-> done]]

Lines ==
    {BlankLine, NotJsonLine, ScalarLine}
      \cup {ObjectLine(r, d) : r \in {None, Some(""), Some("a"), Some("b")},
                               d \in {None, Some(FALSE), Some(TRUE)}}

\* The body of a response: up to MaxLines lines.
Bodies == UNION {[1..n -> Lines] : n \in 0..MaxLines}

\* One pass of the loop body that takes nothing from the line.
Skipped == [yields |-> None, breaks |-> FALSE]

\* The "done" flag tested before the text is yielded.
LineEffectDoneFirst(line) ==
    IF line.kind # "object" THEN Skipped
    ELSE LET data == line.data
             done == data.done.some /\ data.done.value
         IN  [yields |-> IF ~done /\ data.response.some /\ data.response.value # ""
                         THEN Some(data.response.value) ELSE None,
              breaks |-> done]

\* Lines 85-106, one pass of the loop body: "if line" drops an empty line;
\* json.loads raises JSONDecodeError on bytes that are no JSON (line 101:
\* continue); `"response" in data`, data["response"] or data.get raises on
\* JSON that is no object (line 104: continue); of an object the truthy
\* "response" is yielded (lines 91-94) and then a truthy "done" leaves the
\* loop (lines 97-99).
LineEffect(line) ==
    IF line.kind = "blank" THEN Skipped
    ELSE IF line.kind = "text" THEN Skipped
    ELSE IF line.kind = "scalar" THEN Skipped
    ELSE LET data == line.data
         IN  [yields |-> IF data.response.some /\ data.response.value # ""
                         THEN Some(data.response.value) ELSE None,
              breaks |-> data.done.some /\ data.done.value]

\* Lines 84-94: the next line is taken from iter_lines; its text, if any, is
\* yielded and the generator is suspended at line 94.
TextStreamLine ==
    /\ transport.pc = "reading"
    /\ transport.pos < Len(transport.lines)
    /\ LET effect == LineEffect(transport.lines[transport.pos + 1])
       IN  transport' =
             [transport EXCEPT
                !.pos = @ + 1,
                !.yielded = IF effect.yields.some
                            THEN Append(@, effect.yields.value) ELSE @,
                !.pc = IF effect.yields.some THEN "yielded"
                       ELSE IF effect.breaks THEN "returned" ELSE "reading"]
    /\ UNCHANGED <<client, app, streams, account, now>>

\* Lines 97-99: the consumer asks for the next chunk; the generator goes on
\* after the yield with the "done" test of the same line.
TextStreamResume ==
    /\ transport.pc = "yielded"
    /\ transport' =
         [transport EXCEPT
            !.pc = IF LineEffect(transport.lines[transport.pos]).breaks
                   THEN "returned" ELSE "reading"]
    /\ UNCHANGED <<client, app, streams, account, now>>

\* Line 84: the connection is closed, iter_lines is exhausted and the
\* generator returns.
TextStreamClose ==
    /\ transport.pc = "reading"
    /\ transport.pos = Len(transport.lines)
    /\ ~transport.broken
    /\ transport' = [transport EXCEPT !.pc = "returned"]
    /\ UNCHANGED <<client, app, streams, account, now>>

\* Lines 108-113: the connection breaks or times out instead; iter_lines
\* raises and the generator raises.
TextStreamBroken ==
    /\ transport.pc = "reading"
    /\ transport.pos = Len(transport.lines)
    /\ transport.broken
    /\ transport' = [transport EXCEPT !.pc = "raised"]
    /\ UNCHANGED <<client, app, streams, account, now>>

InitTransport ==
    /\ ClientIdle
    /\ AppIdle
    /\ streams = << >>
    /\ account = [email |-> ""]
    /\ now = 0
    /\ transport \in {[pc |-> "reading", lines |-> body, broken |-> b,
                       pos |-> 0, yielded |-> << >>] :
                          body \in Bodies, b \in BOOLEAN}

NextTransport ==
    \/ TextStreamLine
    \/ TextStreamResume
    \/ TextStreamClose
    \/ TextStreamBroken

SpecTransport == InitTransport /\ [][NextTransport]_vars

\* ---- two stream generators that run side by side (lines 256-320)

\* The responses of the two requests: "ok 7" and "7 ok".
PairTexts == {<<"o","k"," ","7">>, <<"7"," ","o","k">>}

\* The frame of a generator that will be sent the text t: its locals, and
\* the fragments it has received.
NewStream(t) ==
    [pc |-> "loop", text |-> t, pos |-> 0, nfrag |-> 0, full_response |-> << >>,
     buffer |-> << >>, events |-> << >>, received |-> << >>]

\* Lines 262-289, one pass of the fragment loop on the locals of one frame.
Feed(frame, chunk) ==
    LET buffer == frame.buffer \o chunk
        filtered_buffer == FilterBuffer(buffer)
    IN  [frame EXCEPT
            !.full_response = @ \o chunk,
            !.buffer = IF Flushes(filtered_buffer) THEN << >> ELSE buffer,
            !.events = IF Flushes(filtered_buffer)
                       THEN Append(@, ChunkEvent(filtered_buffer, 1)) ELSE @]

\* Lines 259-261: generator i starts its attempt and posts its request
\* through the session of the client object.
PairRequest(i) ==
    /\ i \in 1..Len(streams)
    /\ streams[i].pc = "loop"
    /\ requests' = requests + 1
    /\ posts' = Append(posts, LLMGenerateRequest(model, prompt, TRUE, images))
    /\ streams' = [streams EXCEPT ![i].pc = "streaming",
                                  ![i].full_response = << >>, ![i].buffer = << >>]
    /\ UNCHANGED <<app, transport, account, now, entry, max_retries, delay, text,
                   cuts, model, image_base64, prompt, images, outcomes, sleeps,
                   lp, gr, st, events>>

\* The fragment loop with full_response and buffer kept on the client object,
\* which the generators share.
PairChunkShared(i, k) ==
    /\ i \in 1..Len(streams)
    /\ streams[i].pc = "streaming"
    /\ streams[i].nfrag < MaxFragments
    /\ k \in (streams[i].pos + 1)..Len(streams[i].text)
    /\ streams[i].nfrag = MaxFragments - 1 => k = Len(streams[i].text)
    /\ LET chunk == Slice(streams[i].text, streams[i].pos + 1, k)
           fed == Feed(streams[i], chunk)
       IN  streams' = [j \in 1..Len(streams) |->
               IF j = i
               THEN [fed EXCEPT !.pos = k, !.nfrag = @ + 1,
                                !.received = Append(@, chunk)]
               ELSE [streams[j] EXCEPT !.full_response = fed.full_response,
                                       !.buffer = fed.buffer]]
    /\ UNCHANGED <<client, app, transport, account, now>>

\* Lines 261-289: the fragment text[pos+1..k] of generator i arrives.
PairChunk(i, k) ==
    /\ i \in 1..Len(streams)
    /\ streams[i].pc = "streaming"
    /\ streams[i].nfrag < MaxFragments
    /\ k \in (streams[i].pos + 1)..Len(streams[i].text)
    /\ streams[i].nfrag = MaxFragments - 1 => k = Len(streams[i].text)
    /\ LET chunk == Slice(streams[i].text, streams[i].pos + 1, k)
       IN  streams' = [streams EXCEPT ![i] =
               [Feed(@, chunk) EXCEPT !.pos = k, !.nfrag = @ + 1,
                                      !.received = Append(@, chunk)]]
    /\ UNCHANGED <<client, app, transport, account, now>>

\* Lines 291-320: the fragment stream of generator i has ended; it yields
\* "complete" and returns.
PairEnd(i) ==
    /\ i \in 1..Len(streams)
    /\ streams[i].pc = "streaming"
    /\ streams[i].pos = Len(streams[i].text)
    /\ streams' = [streams EXCEPT
           ![i].pc = "returned",
           ![i].events = Append(@, CompleteEvent(streams[i].full_response, 1))]
    /\ UNCHANGED <<client, app, transport, account, now>>

InitPair ==
    /\ ClientIdle
    /\ AppIdle
    /\ transport = [pc |-> "idle"]
    /\ account = [email |-> ""]
    /\ now = 0
    /\ \E t1 \in PairTexts, t2 \in PairTexts :
           streams = <<NewStream(t1), NewStream(t2)>>

NextPair ==
    \/ \E i \in 1..Len(streams) : PairRequest(i)
    \/ \E i \in 1..Len(streams) : \E k \in 1..Len(streams[i].text) : PairChunk(i, k)
    \/ \E i \in 1..Len(streams) : PairEnd(i)

SpecPair == InitPair /\ [][NextPair]_vars

\* ---- the password login and the lock of the account (routes/auth.py 102-167)

MaxLogins == 7
FirstHour == 22
LastHour == 24
LockThreshold == 5

\* The hour of the day of a time counted in hours.
HourOf(t) == t % 24

\* models/user.py 67-71
is_account_locked(u, t) == u.locked_until.some /\ u.locked_until.value > t

\* models/user.py 73-76
reset_failed_attempts(u) ==
    [u EXCEPT !.failed_login_attempts = 0, !.locked_until = None]

\* models/user.py 78-84: datetime.replace(hour=hour + 1) raises ValueError
\* ("hour must be in 0..23") when the hour is 23.
increment_failed_attempts(u, t) ==
    LET n == u.failed_login_attempts + 1
    IN  IF n >= LockThreshold
        THEN IF HourOf(t) + 1 > 23
             THEN [exc |-> "ValueError"]
             ELSE [u EXCEPT !.failed_login_attempts = n, !.locked_until = Some(t + 1)]
        ELSE [u EXCEPT !.failed_login_attempts = n]

\* models/user.py 53-55: the hash of the password given equals the stored one.
check_password(u, password) == password = u.password

\* The bodies of the login requests: no valid body, or an email and a
\* password.
LoginRequests ==
    {None, [email |-> "x@y.z", password |-> "right"]}
      \cup {[email |-> "a@b.c", password |-> w] : w \in {"right", "wrong"}}

\* What the login route answers to the request data.
LoginAnswer(data, status) ==
    [route |-> "login", data |-> data, status |-> status, token |-> status = 200]

\* routes/auth.py 102-167, with the handler of app.py line 68 for an
\* exception that leaves the view: 500, and the session is rolled back.
LoginPost(data) ==
    /\ Len(responses) < MaxLogins
    /\ IF data = None
       THEN /\ responses' = Append(responses, LoginAnswer(data, 400))
            /\ UNCHANGED account
       ELSE IF data.email # account.email
       THEN /\ responses' = Append(responses, LoginAnswer(data, 401))
            /\ UNCHANGED account
       ELSE IF is_account_locked(account, now)
       THEN /\ responses' = Append(responses, LoginAnswer(data, 423))
            /\ UNCHANGED account
       ELSE IF ~account.is_active
       THEN /\ responses' = Append(responses, LoginAnswer(data, 403))
            /\ UNCHANGED account
       ELSE IF ~check_password(account, data.password)
       THEN LET counted == increment_failed_attempts(account, now)
            IN  IF Raised(counted)
                THEN /\ responses' = Append(responses, LoginAnswer(data, 500))
                     /\ UNCHANGED account
                ELSE /\ responses' = Append(responses, LoginAnswer(data, 401))
                     /\ account' = counted
       ELSE /\ responses' = Append(responses, LoginAnswer(data, 200))
            /\ account' = [reset_failed_attempts(account) EXCEPT !.last_login = Some(now)]
    /\ UNCHANGED <<client, user, memories, route, calls, transport, streams, now>>

\* An hour passes.
Tick ==
    /\ now < LastHour
    /\ now' = now + 1
    /\ UNCHANGED <<client, app, transport, streams, account>>

InitLogin ==
    /\ ClientIdle
    /\ AppIdle
    /\ transport = [pc |-> "idle"]
    /\ streams = << >>
    /\ now \in FirstHour..LastHour
    /\ \E active \in BOOLEAN :
           account = [email |-> "a@b.c", password |-> "right", is_active |-> active,
                      failed_login_attempts |-> 0, locked_until |-> None,
                      last_login |-> None]

NextLogin ==
    \/ \E data \in LoginRequests : LoginPost(data)
    \/ Tick

SpecLogin == InitLogin /\ [][NextLogin]_vars

\* ------------------------------------------------------------- properties

\* The frame of the entry point the caller invoked.
Pc == CASE entry = "long_polling" -> lp.pc
        [] entry = "reflection" -> gr.pc
        [] entry = "stream" -> st.pc

Finished == Pc \in {"returned", "raised"}

\* The call has produced its result: a text, a triple, a "complete" event.
Succeeded ==
    CASE entry = "long_polling" -> lp.pc = "returned" /\ lp.result.some
      [] entry = "reflection" -> gr.pc = "returned" /\ gr.result.some
      [] entry = "stream" -> /\ st.pc = "returned"
                             /\ events # << >>
                             /\ events[Len(events)].type = "complete"

RECURSIVE Pow2(_)
Pow2(n) == IF n = 0 THEN 1 ELSE 2 * Pow2(n - 1)

\* d, 2d, 4d, ...: n delays.
Schedule(d, n) == [i \in 1..n |-> d * Pow2(i - 1)]

LastOutcome == outcomes[Len(outcomes)]

\* An attempt counts as failed: for the claim as stated, whenever the
\* transport raised or the response was empty or not done.
FailedAsClaimed(o) == o # "ok"

\* What the code retries: on the atomic paths the same; on the streaming
\* path only a request that raises.
Retried(o) == IF entry = "stream" THEN o \in Raising ELSE o # "ok"

C2_Exhaustion ==
    (/\ entry \in {"long_polling", "reflection"}
     /\ Finished
     /\ max_retries >= 1
     /\ \A i \in 1..Len(outcomes) : outcomes[i] # "ok") =>
        /\ Pc = "raised"
        /\ requests = max_retries
        /\ Len(outcomes) = max_retries
        /\ Len(sleeps) = max_retries - 1
        /\ IF entry = "long_polling"
           THEN lp.exc = ExcOf(LastOutcome) /\ ~lp.result.some
           ELSE gr.exc = ExcOf(LastOutcome) /\ ~gr.result.some

C2_Witness ==
    /\ entry = "reflection"
    /\ gr.pc = "raised"
    /\ max_retries = 3
    /\ requests = 3
    /\ Len(sleeps) = 2
    /\ gr.exc = "TimeoutError"

Terminal(e) == e.type \in {"complete", "error"}

\* C3: a "complete" or "error" event is the last event of the stream: no
\* event follows it.
C3_TerminalIsLast ==
    \A i \in 1..Len(events) : Terminal(events[i]) => i = Len(events)

\* C4: when the fragment stream of an attempt has ended without an
\* exception, exactly one "complete" event has been yielded, it is the last
\* event, it carries the cleaned reflection, the weight and the tags of the
\* text the transport delivered (or "", 0, []), and the generator has
\* stopped: no further attempt, no further step.
C4_CompleteOnStreamEnd ==
    (entry = "stream" /\ st.pc = "returned" /\ max_retries >= 1) =>
        LET n == Len(events)
            delivered == Slice(text, 1, st.pos)
            x == ExtractReflectionWeightAndTags(delivered)
        IN /\ n >= 1
           /\ events[n].type = "complete"
           /\ events[n].attempt = st.attempt + 1
           /\ Cardinality({i \in 1..n : events[i].type = "complete"}) = 1
           /\ \A i \in 1..n : events[i].type = "chunk" => i < n
           /\ IF delivered = << >>
              THEN /\ events[n].reflection = << >>
                   /\ events[n].weight = 0
                   /\ events[n].tags = << >>
              ELSE /\ events[n].reflection = CleanReflection(x.reflection)
                   /\ events[n].weight = x.weight
                   /\ events[n].tags = x.tags
           /\ requests = st.attempt + 1
           /\ ~ENABLED Next

C4_Witness ==
    /\ entry = "stream"
    /\ st.pc = "returned"
    /\ st.attempt = 1
    /\ text = <<"3"," ","a">>
    /\ Len(events) = 4
    /\ events[4].type = "complete"
    /\ events[4].reflection = <<" ","a">>

Contains(s, lit) == \E i \in 1..Len(s) : MatchLit(s, i, lit)

\* s contains tok as a token of its own: \btok\b.
Standalone(s, tok) ==
    \E i \in 1..Len(s) :
        /\ i + Len(tok) - 1 <= Len(s)
        /\ Slice(s, i, i + Len(tok) - 1) = tok
        /\ Boundary(s, i)
        /\ Boundary(s, i + Len(tok))

ChunkContents == {events[i].content : i \in {j \in 1..Len(events) : events[j].type = "chunk"}}

\* The contents of the "chunk" events so far, concatenated in order.
RECURSIVE Concat(_)
Concat(es) ==
    IF es = << >> THEN << >>
    ELSE (IF es[1].type = "chunk" THEN es[1].content ELSE << >>) \o Concat(Tail(es))

\* C6: when "...the weight is 7 out of 10 TAGS: calm, focus" is streamed,
\* however it is split into fragments, no "chunk" event has a content that
\* contains "weight", "TAGS:", or the tokens "7" or "10" standing alone.
C6_NoLeakInChunks ==
    text = LeakText =>
        \A c \in ChunkContents :
            /\ ~Contains(c, WeightLit)
            /\ ~Contains(c, TagsLit)
            /\ ~Standalone(c, <<"7">>)
            /\ ~Standalone(c, <<"1","0">>)

\* C7: when "...the weight is 7 out of 10 TAGS: calm, focus" has been
\* streamed, however it was split, the "complete" event reports weight 7 and
\* the tags "calm" and "focus".
C7_LeakTerminalResult ==
    (text = LeakText /\ st.pc = "returned") =>
        /\ events # << >>
        /\ events[Len(events)].type = "complete"
        /\ events[Len(events)].weight = 7
        /\ events[Len(events)].tags = << <<"c","a","l","m">>, <<"f","o","c","u","s">> >>

\* C8: however a response is split into fragments, the concatenation of the
\* contents of the "chunk" events contains no "weight" and no "TAGS:": the
\* head of a redacted pattern is not emitted before its rest has arrived.
C8_NoStraddleLeak ==
    /\ ~Contains(Concat(events), WeightLit)
    /\ ~Contains(Concat(events), TagsLit)

\* What the atomic path returns for the text the transport delivers.
AtomicTriple == ExtractReflectionWeightAndTags(text)

Triple(r) == [reflection |-> r.reflection, weight |-> r.weight, tags |-> r.tags]

StreamCompleted ==
    /\ entry = "stream"
    /\ st.pc = "returned"
    /\ events # << >>
    /\ events[Len(events)].type = "complete"

AtomicReturned == entry = "reflection" /\ gr.pc = "returned" /\ gr.result.some

\* C9 as stated: for every text and every split of it into fragments, the
\* reflection, the weight and the tags of the "complete" event equal the
\* triple the atomic path returns for the same text.
C9_AsClaimed ==
    /\ AtomicReturned => Triple(gr.result) = AtomicTriple
    /\ StreamCompleted => Triple(events[Len(events)]) = AtomicTriple

\* C9 as amended: for every text and every split, the weight and the tags of
\* the "complete" event equal those of the atomic path, and its reflection
\* is the atomic reflection after the stream's redaction (sentences with
\* "weight" or "weigh", standalone numbers 1-10 and trailing asterisks
\* removed), which no split changes.
C9_StreamAtomicEquivalence ==
    /\ AtomicReturned => Triple(gr.result) = AtomicTriple
    /\ StreamCompleted =>
          /\ events[Len(events)].weight = AtomicTriple.weight
          /\ events[Len(events)].tags = AtomicTriple.tags
          /\ events[Len(events)].reflection = CleanReflection(AtomicTriple.reflection)

C9_Witness ==
    /\ StreamCompleted
    /\ text = Piece7 \o Piece2
    /\ st.nfrag = 2
    /\ events[Len(events)].weight = 8
    /\ AtomicTriple.reflection = Piece7
    /\ events[Len(events)].reflection # Piece7

\* The weight a finished call reports.
ReportedWeight ==
    IF entry = "stream" THEN events[Len(events)].weight ELSE gr.result.weight

\* C10: the weight the extraction returns is an integer in 0..10; a matched
\* value outside 1..10 gives 0, never 1 or 10, and a matched value inside
\* 1..10 is returned as it is.
C10_WeightBounds ==
    (AtomicReturned \/ StreamCompleted) =>
        LET matched == ExtractRaw(text).weight
        IN /\ ReportedWeight \in 0..10
           /\ ~(matched \in 1..10) => ReportedWeight = 0
           /\ matched \in 1..10 => ReportedWeight = matched

C10_Witness ==
    /\ AtomicReturned
    /\ text = Piece3
    /\ ExtractRaw(text).weight = 15
    /\ gr.result.weight = 0

\* The first of the three weight patterns, in the order of the source, that
\* matches the response; 0 when none does.
FirstMatching(response) ==
    IF FirstMatch(response, WeightColonMatches) # 0 THEN 1
    ELSE IF FirstMatch(response, HoldsMatches) # 0 THEN 2
    ELSE IF FirstMatch(Strip(response), EndNumberMatches) # 0 THEN 3
    ELSE 0

\* The locals when pattern k alone has been applied after the tags.
OnlyPattern(response, k) ==
    CASE k = 1 -> WeightPattern1(response, ExtractTags(response))
      [] k = 2 -> WeightPattern2(response, ExtractTags(response))
      [] k = 3 -> WeightPattern3(response, ExtractTags(response))
      [] OTHER -> ExtractTags(response)

\* C12: the weight patterns are tried in the order 1 ("Weight: N"), 2 ("this
\* memory holds a weight of N"), 3 (a number 1-10 at the end); the first
\* that matches decides the weight, whatever it captured, and after it no
\* other pattern is consulted and no other pattern's substring is stripped.
C12_FirstMatchWins ==
    AtomicReturned =>
        LET k == FirstMatching(text)
            only == OnlyPattern(text, k)
        IN /\ ExtractRaw(text).matched = IF k = 0 THEN << >> ELSE <<k>>
           /\ gr.result.weight = ValidateWeight(only.weight)
           /\ gr.result.reflection = FinishExtraction(text, only).reflection

EndsWith(s, suffix) ==
    /\ Len(suffix) <= Len(s)
    /\ SubSeq(s, Len(s) - Len(suffix) + 1, Len(s)) = suffix

\* C13: for a text that is some words followed by the bare out-of-range
\* integer " 11" and matches no weight pattern, the extraction returns
\* weight 0 and a reflection that keeps the words and from which the
\* trailing number has been stripped.
C13_ScenarioB ==
    (/\ AtomicReturned
     /\ EndsWith(text, Piece9)
     /\ Strip(SubSeq(text, 1, Len(text) - Len(Piece9))) # << >>
     /\ FirstMatching(text) = 0) =>
        /\ gr.result.weight = 0
        /\ ~EndsWith(gr.result.reflection, <<"1","1">>)
        /\ FirstMatch(text, TagsMatches) = 0 =>
              gr.result.reflection = Strip(SubSeq(text, 1, Len(text) - Len(Piece9)))

\* C14: for a response R + " Weight: N" + newline + "TAGS: t1, t2, t3" with
\* N in 1..10 and R free of weight and tag markers, the extraction returns
\* the reflection R trimmed, the weight N and the tags t1, t2, t3 in order.
C14_ScenarioA ==
    AtomicReturned =>
        \A R \in Reflections, N \in 1..10, ts \in TagLists :
            text = ScenarioText(R, N, ts) =>
                /\ gr.result.reflection = Strip(R)
                /\ gr.result.weight = N
                /\ gr.result.tags = ts

C14_Witness ==
    /\ AtomicReturned
    /\ text = ScenarioText(Reflection3, 8,
                  << <<"f","a","m","i","l","y">>, <<"j","o","y">>, <<"b","e","a","c","h">> >>)
    /\ gr.result.reflection = Reflection3
    /\ gr.result.weight = 8
    /\ Len(gr.result.tags) = 3

\* The elements of a set of numbers in increasing order.
RECURSIVE Ascending(_)
Ascending(S) ==
    IF S = {} THEN << >> ELSE <<MinOf(S)>> \o Ascending(S \ {MinOf(S)})

\* The tags a line lists: its pieces between commas, trimmed, the blank ones
\* dropped, in order.
TagsListed(line) ==
    LET commas == {i \in 1..Len(line) : line[i] = ","}
        piece(b) == Strip(Slice(line, b + 1,
                                MinOf({c \in commas : c > b} \cup {Len(line) + 1}) - 1))
        starts == Ascending({b \in {0} \cup commas : piece(b) # << >>})
    IN [k \in 1..Len(starts) |-> piece(starts[k])]

\* The first position of a "TAGS:" marker in s, ignoring case; 0 when none.
MarkerAt(s) ==
    LET I == {i \in 1..Len(s) : MatchLit(s, i, TagsLit)}
    IN IF I = {} THEN 0 ELSE MinOf(I)

C16_ReflectionFallback ==
    AtomicReturned =>
        LET remaining == Strip(ExtractRaw(text).reflection)
        IN /\ gr.result.reflection = IF remaining = << >> THEN Strip(text) ELSE remaining
           /\ Strip(gr.result.reflection) = gr.result.reflection
           /\ Strip(text) # << >> => gr.result.reflection # << >>

C16_Witness ==
    /\ AtomicReturned
    /\ text = Piece2
    /\ Strip(ExtractRaw(text).reflection) = << >>
    /\ gr.result.weight = 8
    /\ gr.result.reflection = Strip(Piece2)

\* The image is in the prompt of a posted body.
InPrompt(post) == post.prompt.image_section # << >>

\* The image is in the images field of a posted body.
InImagesField(post) ==
    /\ "images" \in DOMAIN post
    /\ post.images = <<image_base64>>

\* C17: when an image is attached, every request that reaches the transport
\* carries it in exactly one channel: for a vision model in the images
\* field and not in the prompt, for a text-only model in the prompt and
\* with no images field.
C17_ImageChannel ==
    image_base64 # "" =>
        \A n \in 1..Len(posts) :
            IF IsVisionModel(model)
            THEN InImagesField(posts[n]) /\ ~InPrompt(posts[n])
            ELSE InPrompt(posts[n]) /\ ~("images" \in DOMAIN posts[n])

\* The setter of the column that getter op reads.
SetterOf(op) ==
    IF op = "get_content" THEN "set_content" ELSE "set_model_response"

\* The last call before call n that wrote the column call n reads: 0 when
\* there is none.
LastWrite(n) ==
    LET W == {m \in 1..(n - 1) : /\ calls[m].op = SetterOf(calls[n].op)
                                 /\ calls[m].id = calls[n].id
                                 /\ ~calls[m].raised}
    IN  IF W = {} THEN 0 ELSE CHOOSE m \in W : \A h \in W : h <= m

IsGetter(n) == calls[n].op \in {"get_content", "get_model_response"}

\* C18: a getter called with a valid key on a column last written with the
\* non-empty text x under the same key returns x; called with another valid
\* key it returns None and does not raise. This holds of get_content after
\* set_content and of get_model_response after set_model_response.
C18_RoundTrip ==
    \A n \in 1..Len(calls) :
        (IsGetter(n) /\ calls[n].key \in Keys /\ LastWrite(n) # 0) =>
            LET w == calls[LastWrite(n)]
            IN  /\ ~calls[n].raised
                /\ (w.arg # << >> /\ calls[n].key = w.key) =>
                       calls[n].result = Some(w.arg)
                /\ calls[n].key # w.key => calls[n].result = None

\* A reflection was written under k1 and read back with k1 and then with k2.
C18_Witness ==
    /\ Len(calls) = 3
    /\ calls[1].op = "set_model_response" /\ calls[1].key = "k1"
    /\ calls[2].op = "get_model_response" /\ calls[2].key = "k1"
    /\ calls[2].result = Some(calls[1].arg)
    /\ calls[3].op = "get_model_response" /\ calls[3].key = "k2"
    /\ calls[3].result = None /\ ~calls[3].raised

\* The weights the Extraction Engine produced for memory id: those the task
\* route reported when it stored its result.
ExtractedWeights(id) ==
    {responses[n].weight : n \in {h \in 1..Len(responses) :
        /\ responses[h].route = "task"
        /\ "sse" \in DOMAIN responses[h]
        /\ responses[h].type = "complete"
        /\ responses[h].memory_id = id}}
    \cup
    {responses[n].memory_weight : n \in {h \in 1..Len(responses) :
        /\ responses[h].route = "task"
        /\ responses[h].status = 200
        /\ "memory_weight" \in DOMAIN responses[h]
        /\ responses[h].memory_id = id}}

\* C11: in every reachable state the weight of every memory is within 0..10,
\* and a weight other than 0 is a weight the Extraction Engine produced for
\* that memory; no other operation, the re-weighting route and its failure
\* fallback included, stores a nonzero weight.
C11_StoredWeight ==
    \A i \in 1..Len(memories) :
        /\ memories[i].memory_weight \in 0..10
        /\ memories[i].memory_weight # 0 =>
               memories[i].memory_weight \in ExtractedWeights(memories[i].id)

\* C11 for the task route alone: until the re-weighting route has answered,
\* every stored weight is one the extraction produced.
C11_TaskWritesOnly ==
    (\A n \in 1..Len(responses) : responses[n].route # "weight") =>
        C11_StoredWeight

\* bytes is a token the key of the user opens.
Opens(bytes) == bytes.kind = "token" /\ bytes.key = user.encryption_key

\* What a reader with the user's key is to be given for a column.
Expected(bytes) == IF Opens(bytes) THEN Some(bytes.plain) ELSE None

\* This step is the answer of a route that reads the memories.
ReadStep(name) ==
    /\ Len(responses') = Len(responses) + 1
    /\ responses'[Len(responses')].route = name

\* The answer lists every memory, each with its id and tags, and with each
\* of its two texts if and only if the column decrypts.
ListsAll(r) ==
    /\ r.status = 200
    /\ Len(r.memories) = Len(memories)
    /\ \A i \in 1..Len(memories) :
           \E n \in 1..Len(r.memories) :
               /\ r.memories[n].id = memories[i].id
               /\ JoinComma(r.memories[n].tags) = memories[i].tags
               /\ r.memories[n].content = Expected(memories[i].encrypted_content)
               /\ r.memories[n].model_response =
                      Expected(memories[i].model_response)

\* The answer holds the reflection of every memory whose reflection
\* decrypts, and the read has not failed.
SummarisesAll(r) ==
    /\ r.status \in {200, 404}
    /\ \A i \in 1..Len(memories) :
           Truthy(Expected(memories[i].model_response)) =>
               /\ r.status = 200
               /\ \E n \in 1..Len(r.memories) :
                      r.memories[n] = memories[i].model_response.plain

\* C19: in a read of several memories, a memory whose content or reflection
\* is corrupt, empty or written under another key yields null for that one
\* field only; its other fields and every other memory are still returned,
\* and the read as a whole does not fail.
C19_Isolation ==
    [][(\E i \in 1..Len(memories) : ~Opens(memories[i].encrypted_content)
                                    \/ ~Opens(memories[i].model_response)) =>
           /\ ReadStep("memories") => ListsAll(responses'[Len(responses')])
           /\ ReadStep("summary") =>
                  SummarisesAll(responses'[Len(responses')])]_vars

\* C19 for GET /api/memories alone, whatever the columns hold.
C19_ListRead ==
    [][ReadStep("memories") => ListsAll(responses'[Len(responses')])]_vars

\* The reflection of memory i was written by the submission pipeline, and
\* the content of the memory is readable with the user's key.
PipelineWrote(i) ==
    /\ memories[i].model_response.kind = "token"
    /\ Opens(memories[i].encrypted_content)

\* C20: the content and the reflection of every memory are encrypted under
\* the same key of the user, and every read path decrypts the reflection
\* with that key: a reflection the submission pipeline wrote is given to
\* every reader that can read the content.
C20_KeyConsistency ==
    [][/\ \A i \in 1..Len(memories) :
              memories[i].model_response.kind = "token" =>
                  memories[i].model_response.key = memories[i].encrypted_content.key
       /\ ReadStep("memories") =>
              \A i \in 1..Len(memories) : PipelineWrote(i) =>
                  \E n \in 1..Len(memories) :
                      LET d == responses'[Len(responses')].memories[n]
                      IN  /\ d.id = memories[i].id
                          /\ d.model_response = Some(memories[i].model_response.plain)
       /\ ReadStep("summary") =>
              \A i \in 1..Len(memories) :
                  (PipelineWrote(i) /\ memories[i].model_response.plain # << >>) =>
                      LET r == responses'[Len(responses')]
                      IN  /\ r.status = 200
                          /\ \E n \in 1..Len(r.memories) :
                                 r.memories[n] = memories[i].model_response.plain]_vars

\* C20 for the submission pipeline and GET /api/memories alone: they keep
\* to one key.
C20_WriterAndList ==
    [][/\ \A i \in 1..Len(memories) :
              memories[i].model_response.kind = "token" =>
                  memories[i].model_response.key = memories[i].encrypted_content.key
       /\ ReadStep("memories") =>
              \A i \in 1..Len(memories) : PipelineWrote(i) =>
                  \E n \in 1..Len(memories) :
                      LET d == responses'[Len(responses')].memories[n]
                      IN  /\ d.id = memories[i].id
                          /\ d.model_response = Some(memories[i].model_response.plain)]_vars

\* The call has returned normally with the result its signature promises: a
\* non-empty text, or a (reflection, weight, tags) triple.
ProperResult ==
    CASE entry = "long_polling" -> lp.result.some /\ lp.result.value # << >>
      [] entry = "reflection" -> gr.result.some
      [] OTHER -> FALSE

\* C30: for every max_retries >= 0 and every behaviour of the transport, a
\* call of generate_with_long_polling or generate_reflection_weight_and_tags
\* that has ended has either returned a proper result or raised; it has not
\* returned without a result and without a request.
C30_ResultOrFailure ==
    (entry \in {"long_polling", "reflection"} /\ Finished) =>
        \/ Pc = "raised"
        \/ Pc = "returned" /\ ProperResult

\* C30 for max_retries >= 1: there the call returns a result or raises.
C30_WithAnAttempt ==
    max_retries >= 1 => C30_ResultOrFailure

\* The content of the submission the task route is working on.
SubmittedContent == memories[route.memory_id].encrypted_content.plain

\* C21: a submission whose content is missing or empty is rejected with a
\* validation error and never reaches the transport: no request to the model
\* is issued for it.
C21_Rejected ==
    requests > 0 => (route.name = "task" /\ SubmittedContent # << >>)

\* C21 for a missing content alone: a request is only ever issued for a
\* submission that carried a content, and the answer 400 creates no memory.
C21_MissingContent ==
    /\ requests > 0 => route.name = "task"
    /\ \A n \in 1..Len(responses) :
           responses[n].status = 400 => responses[n].route = "task"

\* This step ends a submission in failure: the regular route answers 500, or
\* the streaming route sends its "error" message.
FailedStep ==
    /\ route.name = "task"
    /\ route' = IdleRoute
    /\ Len(responses') = Len(responses) + 1
    /\ LET r == responses'[Len(responses')]
       IN  r.status = 500 \/ ("sse" \in DOMAIN r /\ r.type = "error")

\* C22: when a submission ends in failure, the memory created for it still
\* exists, its content decrypts under the key of the user to the text that
\* was submitted, and its reflection and weight are unset.
C22_InputKept ==
    [][FailedStep =>
          /\ route.memory_id \in 1..Len(memories')
          /\ LET memory == memories'[route.memory_id]
             IN  /\ get_content(memory, user.encryption_key) = Some(route.content)
                 /\ memory.model_response = EmptyBytes
                 /\ memory.memory_weight = UnsetWeight
                 /\ memory.tags = << >>]_vars

\* A regular submission of "hi" has been answered 500 after its retries, and
\* its memory holds the content and nothing else.
C22_Witness ==
    /\ route = IdleRoute
    /\ Len(responses) = 1
    /\ responses[1].route = "task" /\ responses[1].status = 500
    /\ Len(memories) = 1
    /\ get_content(memories[1], user.encryption_key) = Some(<<"h","i">>)
    /\ memories[1].model_response = EmptyBytes
    /\ memories[1].memory_weight = 0

\* This step ends the submission the task route is working on.
FinishStep == route.name = "task" /\ route' = IdleRoute

\* This step ends a submission in success: the regular route answers 200, or
\* the streaming route sends its "complete" message.
SucceededStep == FinishStep /\ ~FailedStep

\* What the extraction has produced for the submission, when this step ends
\* it in success: the triple the atomic call returned, or the "complete"
\* event of the generator.
Produced ==
    IF route.stream THEN Triple(events[route.forwarded + 1]) ELSE Triple(gr.result)

\* Memory i as it is after result x has been written to it once.
WrittenOnce(i, x) ==
    /\ memories[i].model_response = EmptyBytes
    /\ memories[i].memory_weight = UnsetWeight
    /\ memories[i].tags = << >>
    /\ memories'[i].encrypted_content = memories[i].encrypted_content
    /\ get_model_response(memories'[i], user.encryption_key) = Some(x.reflection)
    /\ memories'[i].memory_weight = x.weight
    /\ memories'[i].tags = JoinComma(x.tags)

\* A memory that exists before and after this step differs.
Mutated(i) == i \in 1..Len(memories) /\ memories'[i] # memories[i]

\* C23 as stated: every end of a submission, in success or after exhausted
\* retries, mutates the memory of the submission, and nothing else does.
C23_AsClaimed ==
    [][/\ FinishStep => Mutated(route.memory_id)
       /\ \A i \in 1..Len(memories) :
              Mutated(i) => (FinishStep /\ route.memory_id = i)]_vars

\* C23: after its creation a memory is mutated by the pipeline at most once:
\* exactly once when its submission ends in success, with the reflection,
\* weight and tags the extraction has produced, and not at all when the
\* submission ends in failure; no other step mutates it.
C23_SingleWrite ==
    [][/\ SucceededStep =>
              /\ Mutated(route.memory_id)
              /\ WrittenOnce(route.memory_id, Produced)
       /\ FailedStep => ~Mutated(route.memory_id)
       /\ \A i \in 1..Len(memories) :
              Mutated(i) => (SucceededStep /\ route.memory_id = i)]_vars

\* A streaming submission has ended in success and its memory holds the
\* reflection "ok" and the weight 7; a regular one has ended in failure and
\* its memory is as it was created.
C23_Witness ==
    /\ route = IdleRoute
    /\ Len(memories) = 2
    /\ \E i \in 1..2 :
           /\ get_model_response(memories[i], user.encryption_key) = Some(<<"o","k">>)
           /\ memories[i].memory_weight = 7
           /\ memories[3 - i].model_response = EmptyBytes
           /\ memories[3 - i].memory_weight = UnsetWeight
    /\ \E n \in 1..Len(responses) :
           "sse" \in DOMAIN responses[n] /\ responses[n].type = "complete"
    /\ \E n \in 1..Len(responses) : responses[n].status = 500

\* A streaming submission is being answered: its event stream is open.
StreamOpen == route.name = "task" /\ route.stream

\* This step sends a message on the event stream, as the last response.
Sends ==
    /\ Len(responses') = Len(responses) + 1
    /\ "sse" \in DOMAIN responses'[Len(responses')]

\* The message this step sends is terminal.
SendsTerminal ==
    Sends /\ responses'[Len(responses')].type \in {"complete", "error"}

\* The generator of the open stream is still running: it is about to send
\* a request or is reading the response.
GeneratorRuns == st.pc \in {"loop", "streaming"}

\* C24: on the streaming route a message is sent only on an open stream; a
\* terminal message ("complete" or "error") closes the stream, and nothing
\* else closes it, so a stream has at most one terminal message and it is the
\* last; the "error" message leaves every memory as it was; and an open
\* stream whose generator has stopped has a terminal event waiting to be
\* sent, so every stream gets its terminal message.
C24_StreamTermination ==
    /\ [][/\ Sends => StreamOpen
          /\ StreamOpen =>
                 /\ SendsTerminal <=> route' = IdleRoute
                 /\ route' # route => Sends
                 /\ (Sends /\ responses'[Len(responses')].type = "error")
                        => memories' = memories]_vars
    /\ [](StreamOpen /\ ~GeneratorRuns =>
              /\ route.forwarded < Len(events)
              /\ events[Len(events)].type \in {"complete", "error"})

\* A stream has sent a chunk and then its "error" message, and is closed; the
\* memory of the submission has no reflection.
C24_Witness ==
    /\ route = IdleRoute
    /\ \E n \in 2..Len(responses) :
           /\ "sse" \in DOMAIN responses[n - 1]
           /\ responses[n - 1].type = "chunk"
           /\ "sse" \in DOMAIN responses[n]
           /\ responses[n].type = "error"
    /\ \E i \in 1..Len(memories) : memories[i].model_response = EmptyBytes

\* The fragments the current attempt has received so far, concatenated.
Received == Slice(text, 1, st.pos)

\* C29: an attempt of the stream generator starts with empty full_response
\* and buffer; while it reads, full_response is the concatenation of the
\* fragments it has received in this attempt, whatever was flushed; and the
\* "complete" event is computed from the fragments of the attempt that ends
\* normally alone.
C29_AccumulatorReset ==
    /\ [][/\ (st.pc = "loop" /\ st'.pc = "streaming") =>
                 (st'.full_response = << >> /\ st'.buffer = << >>)
          /\ (st.pc = "streaming" /\ st'.pc = "returned") =>
                 /\ Len(events') = Len(events) + 1
                 /\ events'[Len(events')] = CompleteEvent(Received, st.attempt + 1)]_vars
    /\ [](st.pc = "streaming" => st.full_response = Received)

\* The first attempt has passed a chunk on and failed; the second attempt has
\* ended normally with the "complete" event of "ok 7" alone.
C29_Witness ==
    /\ st.pc = "returned"
    /\ st.attempt = 1
    /\ Len(events) >= 3
    /\ events[1].type = "chunk" /\ events[1].attempt = 1
    /\ \E n \in 2..Len(events) - 1 : events[n].type = "error" /\ events[n].attempt = 1
    /\ events[Len(events)].type = "complete"
    /\ events[Len(events)].attempt = 2
    /\ events[Len(events)].weight = 7
    /\ st.full_response = <<"o","k"," ","7">>

\* C28: a response in the format the prompt asks for (the reflection, a line
\* with the bare number N in 1..10, the line "TAGS: t1, t2, t3") is extracted
\* with the weight N by the atomic call and by the stream generator.
C28_PromptFormat ==
    \A R \in Reflections, N \in 1..10, ts \in TagLists :
        text = FormatText(R, N, ts) =>
            /\ AtomicReturned => gr.result.weight = N
            /\ StreamCompleted => events[Len(events)].weight = N

\* A well-formed line: a JSON object.
WellFormed(line) == line.kind = "object"

\* The line carries done = true.
CarriesDone(line) == WellFormed(line) /\ line.data.done = Some(TRUE)

\* The number of the first line that carries done = true, or of the last
\* line when none does.
FirstDone(body) ==
    IF \E n \in 1..Len(body) : CarriesDone(body[n])
    THEN CHOOSE n \in 1..Len(body) :
             CarriesDone(body[n]) /\ \A m \in 1..(n - 1) : ~CarriesDone(body[m])
    ELSE Len(body)

\* The non-empty response texts of the well-formed lines of a body, in
\* order.
RECURSIVE TextsOf(_)
TextsOf(body) ==
    IF body = << >> THEN << >>
    ELSE LET line == body[1]
         IN  (IF WellFormed(line) /\ line.data.response \notin {None, Some("")}
              THEN <<line.data.response.value>> ELSE << >>)
             \o TextsOf(Tail(body))

\* C25: generate_text_stream has yielded, in order, the non-empty response
\* texts of the well-formed lines it has read; it reads no line after the
\* first one that carries done = true; it returns only there or when the
\* connection is closed, and it raises only when the connection breaks, so
\* a malformed line neither ends nor fails the stream.
C25_Framing ==
    /\ transport.pos <= FirstDone(transport.lines)
    /\ transport.yielded = TextsOf(SubSeq(transport.lines, 1, transport.pos))
    /\ transport.pc = "returned" => transport.pos = FirstDone(transport.lines)
    /\ transport.pc = "raised" =>
           /\ transport.broken
           /\ transport.pos = Len(transport.lines)
           /\ \A n \in 1..Len(transport.lines) : ~CarriesDone(transport.lines[n])

\* A malformed line was skipped, the text of the line with done = true was
\* yielded, the stream ended there and the line after it was never read.
C25_Witness ==
    /\ transport.pc = "returned"
    /\ transport.lines = <<NotJsonLine, ObjectLine(Some("a"), Some(TRUE)),
                           ObjectLine(Some("b"), None)>>
    /\ transport.pos = 2
    /\ transport.yielded = <<"a">>

\* The frame a generator has after it has received the fragments frags and
\* nothing else has happened.
RECURSIVE Replay(_, _)
Replay(frame, frags) ==
    IF frags = << >> THEN frame ELSE Replay(Feed(frame, frags[1]), Tail(frags))

\* The events a generator that runs alone yields for the fragments frags,
\* with the "complete" event when it has returned.
AloneEvents(frags, returned) ==
    LET frame == Replay(NewStream(<< >>), frags)
    IN  IF returned
        THEN Append(frame.events, CompleteEvent(frame.full_response, 1))
        ELSE frame.events

\* C26: however the fragments of two concurrent streams interleave, the
\* full_response, the buffer and the events of each stream are those of a
\* generator that receives the fragments of this stream alone.
C26_Isolation ==
    \A i \in 1..Len(streams) :
        streams[i].pc # "loop" =>
            LET alone == Replay(NewStream(<< >>), streams[i].received)
            IN  /\ streams[i].full_response = alone.full_response
                /\ streams[i].buffer = alone.buffer
                /\ streams[i].events =
                       AloneEvents(streams[i].received, streams[i].pc = "returned")

\* Both requests went through the one session; stream 1 has returned "ok 7"
\* received as "ok" and " 7" while stream 2 holds "7" in its buffer.
C26_Witness ==
    /\ Len(streams) = 2
    /\ requests = 2
    /\ streams[1].pc = "returned"
    /\ streams[1].received = << <<"o","k">>, <<" ","7">> >>
    /\ streams[1].events[Len(streams[1].events)].weight = 7
    /\ streams[2].pc = "streaming"
    /\ streams[2].buffer = <<"7">>
    /\ streams[2].events = << >>

\* This step answers a login request.
LoginStep ==
    /\ Len(responses') = Len(responses) + 1
    /\ responses'[Len(responses')].route = "login"

\* The request answered is for the account, which is active and not locked,
\* with a wrong password, and it is at least the LockThreshold-th failure in
\* a row.
FifthFailure(data) ==
    /\ data # None
    /\ data.email = account.email
    /\ account.is_active
    /\ ~is_account_locked(account, now)
    /\ ~check_password(account, data.password)
    /\ account.failed_login_attempts + 1 >= LockThreshold

\* What C27 says of a login step.
LockoutHolds ==
    LoginStep =>
        LET answer == responses'[Len(responses')]
        IN  /\ (answer.data # None /\ answer.data.email = account.email
                  /\ is_account_locked(account, now))
                   => (answer.status = 423 /\ ~answer.token)
            /\ FifthFailure(answer.data)
                   => (answer.status = 401 /\ is_account_locked(account', now))
            /\ answer.status = 200 => account'.failed_login_attempts = 0

\* C27: a login attempt while the lock is in force is refused with 423 and
\* gets no token, whatever the password; the fifth failed password login in
\* a row on an active account is answered 401 and locks the account, in
\* every state it can occur in; a successful login resets
\* failed_login_attempts to 0.
C27_Lockout == [][LockoutHolds]_vars

\* The same, for the logins that arrive before 23:00.
C27_BeforeLastHour == [][HourOf(now) # 23 => LockoutHolds]_vars

====
